---------------------------- MODULE Spec2Model ----------------------------
(***************************************************************************)
(* A model of the Game-of-Life SAT encoder: the B3/S23 prime-implicant     *)
(* table (sat_logic.hpp), clause emission (variable_pattern.hpp,           *)
(* variable_grid.cpp, sub_pattern.hpp), symmetry resolution by union-find  *)
(* (VariablePattern::build), KnownPattern evolution (known_pattern.cpp)    *)
(* and the DIMACS writer (solver.hpp).                                     *)
(*                                                                         *)
(* A 10-bit mask (care, force, a truth-table index) is modelled by the set *)
(* of its set bit positions: bit b of the integer is 1 iff b is in the     *)
(* set.  &, | and ^ are intersection, union and symmetric difference.      *)
(***************************************************************************)
EXTENDS Integers, Sequences, FiniteSets, TLC

-----------------------------------------------------------------------------
(* Bit masks                                                               *)

Bits == 0..9

Pow2(b) == 2 ^ b

\* the mask of the integer n
Mask(n) == {b \in Bits : (n \div Pow2(b)) % 2 = 1}

RECURSIVE Value(_)
\* the integer of a mask
Value(m) ==
  IF m = {} THEN 0
  ELSE LET b == CHOOSE c \in m : TRUE IN Pow2(b) + Value(m \ {b})

Xor(a, b) == (a \ b) \cup (b \ a)

\* a map held as a table of its entries (comparing it enumerates them)
Stored(map) == IF map = <<>> THEN <<>> ELSE map

Abs(i) == IF i < 0 THEN 0 - i ELSE i

-----------------------------------------------------------------------------
(* sat_logic.hpp                                                           *)

\* a rule that forgets the centre cell: birth and survival on three only
RuleOutput_NoCentre(x) ==
  IF Cardinality(x \cap Mask(495)) = 3 THEN 1 ELSE 0

\* a rule without survival on three neighbours: B3/S2
RuleOutput_SurviveOnTwo(x) ==
  LET n == Cardinality(x \cap Mask(495))
  IN IF (n = 3 /\ 4 \notin x) \/ (n = 2 /\ 4 \in x) THEN 1 ELSE 0

\* r of line 13: the B3/S23 successor of the 9-bit neighbourhood x
\* (495 = all bits but the centre, bit 4)
RuleOutput(x) ==
  IF Abs(Cardinality(x \cap Mask(495)) * 2
         + (IF 4 \in x THEN 1 ELSE 0) - 6) <= 1 THEN 1 ELSE 0

\* table[x + 512 * r] = 1, every other entry 0
table ==
  [i \in 0..1023 |->
     IF i \div 512 = RuleOutput(Mask(i % 512)) THEN 1 ELSE 0]

\* lines 27-29: no x that is a superset of care has table[x ^ force] set
NoValidInput(care, force) ==
  \A s \in SUBSET (Bits \ care) :
     table[Value(Xor(care \cup s, force))] = 0

\* lines 30-32: an accepted (a, b) with a a subset of care and b = force on a
Subsumed(ans, care, force) ==
  \E i \in 1..Len(ans) :
     /\ ans[i][1] \subseteq care
     /\ ans[i][1] \cap force = ans[i][2]

RECURSIVE SortDesc(_)
\* the masks of a set in decreasing integer order
SortDesc(S) ==
  IF S = {} THEN <<>>
  ELSE LET m == CHOOSE x \in S : \A y \in S : Value(y) <= Value(x)
       IN <<m>> \o SortDesc(S \ {m})

\* one iteration of the loop over care (lines 26-37): force runs through the
\* subsets of care in decreasing order; entries accepted for this care never
\* subsume one another (a = care forces b = force)
ImplicantsOfCare(ans, care) ==
  LET acc == {force \in SUBSET care :
                 NoValidInput(care, force) /\ ~Subsumed(ans, care, force)}
      ord == SortDesc(acc)
  IN [i \in 1..Len(ord) |-> <<care, ord[i]>>]

RECURSIVE ImplicantsUpTo(_, _, _)
\* the loop over care = lo..hi, appended to ans
ImplicantsUpTo(ans, lo, hi) ==
  IF lo > hi THEN ans
  ELSE IF lo = hi THEN ans \o ImplicantsOfCare(ans, Mask(lo))
  ELSE LET mid == (lo + hi) \div 2
           left == ImplicantsUpTo(ans, lo, mid)
       IN \* the first half is evaluated before the second half starts
          IF Len(left) = 0 THEN ImplicantsUpTo(<<>>, mid + 1, hi)
          ELSE ImplicantsUpTo(left, mid + 1, hi)

\* the table of (care, force) pairs, in the order the code appends them
primeImplicants == ImplicantsUpTo(<<>>, 1, 1023)

-----------------------------------------------------------------------------
(* sub_pattern.hpp: Clause and ClauseBuilder                               *)

MAX_CLAUSE_LEN == 9

Less(a, b) == a < b

\* a ClauseBuilder after clear(): lits holds the first `count` slots
NewBuilder == [lits |-> <<>>, tautology |-> FALSE, thrown |-> FALSE]

\* an add that does not look for the negation
BuilderAdd_NoTautology(cb, literal) ==
  IF cb.tautology THEN [cb |-> cb, ret |-> TRUE]
  ELSE IF Len(cb.lits) >= MAX_CLAUSE_LEN
       THEN [cb |-> [cb EXCEPT !.thrown = TRUE], ret |-> FALSE]
  ELSE [cb |-> [cb EXCEPT !.lits = Append(@, literal)], ret |-> FALSE]

\* ClauseBuilder::add; ret is the value returned, thrown the runtime_error
BuilderAdd(cb, literal) ==
  IF cb.tautology THEN [cb |-> cb, ret |-> TRUE]
  ELSE IF \E i \in 1..Len(cb.lits) : cb.lits[i] = 0 - literal
       THEN [cb |-> [cb EXCEPT !.tautology = TRUE], ret |-> TRUE]
  ELSE IF Len(cb.lits) >= MAX_CLAUSE_LEN
       THEN [cb |-> [cb EXCEPT !.thrown = TRUE], ret |-> FALSE]
  ELSE [cb |-> [cb EXCEPT !.lits = Append(@, literal)], ret |-> FALSE]

BuilderEmpty(cb) == Len(cb.lits) = 0

\* ClauseBuilder::get: the first count slots sorted, the other slots 0
BuilderGet(cb) ==
  SortSeq(cb.lits, Less) \o [i \in 1..(MAX_CLAUSE_LEN - Len(cb.lits)) |-> 0]

\* make_clause: the literals, zero padded, all nine slots sorted
make_clause(lits) ==
  SortSeq(lits \o [i \in 1..(MAX_CLAUSE_LEN - Len(lits)) |-> 0], Less)

-----------------------------------------------------------------------------
(* solver.hpp: a string is modelled as the sequence of its lines            *)

RECURSIVE WriteLits(_, _)
\* the inner loop of make_dimacs_string from slot i on: oss << lit << " "
WriteLits(clause, i) ==
  IF i > Len(clause) THEN ""
  ELSE ToString(clause[i]) \o " " \o WriteLits(clause, i + 1)

make_dimacs_string(clauses, num_variables) ==
  <<"p cnf " \o ToString(num_variables) \o " " \o ToString(Len(clauses))>>
  \o [k \in 1..Len(clauses) |-> WriteLits(clauses[k], 1) \o "0"]

-----------------------------------------------------------------------------
(* Clause emission for one transition: the loop over the prime implicants  *)
(* of VariablePattern::get_clauses and SearchProblem::get_clauses.         *)
(* ten_cells maps bit 0..8 to the id of a neighbourhood cell (row-major,   *)
(* bit 4 the centre) and bit 9 to the id of the output cell.               *)

RECURSIVE ScanBits(_, _, _, _, _)
\* the loop over bit = 0..9 with its break; satisfied is clause_satisfied
ScanBits(ten_cells, care, force, bit, cb) ==
  IF bit > 9 THEN [satisfied |-> FALSE, cb |-> cb]
  ELSE IF bit \notin care THEN ScanBits(ten_cells, care, force, bit + 1, cb)
  ELSE LET var_index == ten_cells[bit] IN
    IF var_index < 2
    THEN IF (var_index # 0) = (bit \in force)
         THEN [satisfied |-> TRUE, cb |-> cb]
         ELSE ScanBits(ten_cells, care, force, bit + 1, cb)
    ELSE LET sign == IF bit \in force THEN 1 ELSE -1
             r == BuilderAdd(cb, sign * (var_index - 1))
         IN IF r.cb.thrown \/ r.ret
            THEN [satisfied |-> r.ret, cb |-> r.cb]
            ELSE ScanBits(ten_cells, care, force, bit + 1, r.cb)

\* the clauses of one transition, in table order; thrown when add() threw
TransitionClauses(ten_cells) ==
  LET scan == Stored([i \in 1..Len(primeImplicants) |->
                        ScanBits(ten_cells, primeImplicants[i][1],
                                 primeImplicants[i][2], 0, NewBuilder)])
      Emitted(r) == ~r.satisfied /\ ~BuilderEmpty(r.cb)
      kept == SelectSeq(scan, Emitted)
  IN [thrown |-> \E i \in 1..Len(scan) : scan[i].cb.thrown,
      clauses |-> Stored([i \in 1..Len(kept) |-> BuilderGet(kept[i].cb)])]

-----------------------------------------------------------------------------
(* variable_grid.cpp: calculate_clauses builds each clause in a            *)
(* std::set<int> and emits its elements in increasing order                *)

RECURSIVE SetToSortedSeq(_)
SetToSortedSeq(S) ==
  IF S = {} THEN <<>>
  ELSE LET m == CHOOSE x \in S : \A y \in S : x <= y
       IN <<m>> \o SetToSortedSeq(S \ {m})

RECURSIVE GridScanBits(_, _, _, _, _)
\* as ScanBits, with add_clause_term on a set of literals
GridScanBits(ten_cells, care, force, bit, clause) ==
  IF bit > 9 THEN [satisfied |-> FALSE, clause |-> clause]
  ELSE IF bit \notin care
       THEN GridScanBits(ten_cells, care, force, bit + 1, clause)
  ELSE LET var_index == ten_cells[bit] IN
    IF var_index < 2
    THEN IF (var_index # 0) = (bit \in force)
         THEN [satisfied |-> TRUE, clause |-> clause]
         ELSE GridScanBits(ten_cells, care, force, bit + 1, clause)
    ELSE LET sign == IF bit \in force THEN 1 ELSE -1
             literal == sign * (var_index - 1)
         IN IF (0 - literal) \in clause
            THEN [satisfied |-> TRUE, clause |-> clause]
            ELSE GridScanBits(ten_cells, care, force, bit + 1,
                              clause \cup {literal})

\* the largest solver variable among a set of literals, 0 if none
MaxVar(clause) ==
  IF clause = {} THEN 0
  ELSE CHOOSE v \in {Abs(l) : l \in clause} : \A l \in clause : Abs(l) <= v

\* std::max over a set of naturals, 0 if none
MaxOf(S) ==
  IF S = {} THEN 0 ELSE CHOOSE v \in S : \A w \in S : w <= v

\* the implicant loop of calculate_clauses for one transition
GridTransitionClauses(ten_cells) ==
  LET scan == Stored([i \in 1..Len(primeImplicants) |->
                        GridScanBits(ten_cells, primeImplicants[i][1],
                                     primeImplicants[i][2], 0, {})])
      Emitted(r) == ~r.satisfied /\ r.clause # {}
      kept == SelectSeq(scan, Emitted)
  IN [clauses |->
        Stored([i \in 1..Len(kept) |-> SetToSortedSeq(kept[i].clause)]),
      num_variables |-> MaxOf({MaxVar(scan[i].clause) : i \in 1..Len(scan)})]

-----------------------------------------------------------------------------
(* Reading a CNF: an assignment is the set of the solver variables that    *)
(* are true; slot value 0 is padding, not a literal.                       *)

LitTrue(l, trueVars) == IF l > 0 THEN l \in trueVars ELSE (0 - l) \notin trueVars

ClauseSat(c, trueVars) ==
  \E i \in 1..Len(c) : c[i] # 0 /\ LitTrue(c[i], trueVars)

AllSat(cl, trueVars) == \A i \in 1..Len(cl) : ClauseSat(cl[i], trueVars)

\* B3/S23 stated directly on a 10-bit tuple: the output (bit 9) is alive iff
\* exactly 3 of the 8 non-centre cells are alive, or the centre is alive and
\* exactly 2 of them are
ValidTuple(x) ==
  LET n == Cardinality(x \cap {0, 1, 2, 3, 5, 6, 7, 8})
  IN (9 \in x) <=> (n = 3 \/ (4 \in x /\ n = 2))

-----------------------------------------------------------------------------
(* geometry.hpp: points <<x, y, t>>, affine transforms                     *)
(* <<a1, a2, a3, a4, a5, a6, a7>>, bounds <<xlimits, ylimits, tlimits>>    *)

IDENTITY == <<1, 0, 0, 1, 0, 0, 0>>

\* std::tuple's operator<
PointLess(p, q) ==
  \/ p[1] < q[1]
  \/ p[1] = q[1] /\ p[2] < q[2]
  \/ p[1] = q[1] /\ p[2] = q[2] /\ p[3] < q[3]

PointAdd(p, q) == <<p[1] + q[1], p[2] + q[2], p[3] + q[3]>>

PointSub(p, q) == <<p[1] - q[1], p[2] - q[2], p[3] - q[3]>>

transform(transf, p) ==
  <<transf[1] * p[1] + transf[2] * p[2] + transf[5],
    transf[3] * p[1] + transf[4] * p[2] + transf[6],
    p[3] + transf[7]>>

in_limits(p, bounds) ==
  /\ p[1] >= bounds[1][1] /\ p[1] <= bounds[1][2]
  /\ p[2] >= bounds[2][1] /\ p[2] <= bounds[2][2]
  /\ p[3] >= bounds[3][1] /\ p[3] <= bounds[3][2]

BoundsAdd(b, p) ==
  <<<<b[1][1] + p[1], b[1][2] + p[1]>>,
    <<b[2][1] + p[2], b[2][2] + p[2]>>,
    <<b[3][1] + p[3], b[3][2] + p[3]>>>>

\* the points within bounds
PointsIn(bounds) ==
  {<<x, y, t>> : x \in bounds[1][1]..bounds[1][2],
                 y \in bounds[2][1]..bounds[2][2],
                 t \in bounds[3][1]..bounds[3][2]}

\* find_new_images without the test that the image is not yet in points
find_new_images_NoSeenTest(points, transf_list, bounds) ==
  {q \in {transform(transf_list[i], p) :
            p \in points, i \in 1..Len(transf_list)} :
     in_limits(q, bounds)}

\* transf_list is a sequence of transforms
find_new_images(points, transf_list, bounds) ==
  {q \in {transform(transf_list[i], p) :
            p \in points, i \in 1..Len(transf_list)} :
     q \notin points /\ in_limits(q, bounds)}

RECURSIVE GrowImages(_, _, _)
\* the while loop of find_all_images
GrowImages(images, transf_list, bounds) ==
  LET new_images == find_new_images(images, transf_list, bounds)
  IN IF new_images = {} THEN images
     ELSE GrowImages(images \cup new_images, transf_list, bounds)

find_all_images(p, transf_list, bounds) == GrowImages({p}, transf_list, bounds)

RECURSIVE SortPoints(_)
\* the iteration order of a std::set<Point>
SortPoints(S) ==
  IF S = {} THEN <<>>
  ELSE LET m == CHOOSE p \in S : \A q \in S : q = p \/ PointLess(p, q)
       IN <<m>> \o SortPoints(S \ {m})

-----------------------------------------------------------------------------
(* union_find.hpp: parent is the map; every key used below has been        *)
(* entered by make_set                                                     *)

RECURSIVE UFRoot(_, _)
UFRoot(parent, x) == IF parent[x] = x THEN x ELSE UFRoot(parent, parent[x])

RECURSIVE UFPath(_, _)
\* the keys find(x) visits
UFPath(parent, x) ==
  IF parent[x] = x THEN {x} ELSE {x} \cup UFPath(parent, parent[x])

\* the map after find(x): path compression
UFFind(parent, x) ==
  LET root == UFRoot(parent, x)
      path == UFPath(parent, x)
  IN Stored([k \in DOMAIN parent |-> IF k \in path THEN root ELSE parent[k]])

\* unite on points: the smaller root becomes the parent
UFUnite(parent, a, b) ==
  LET ra == UFRoot(parent, a)
      rb == UFRoot(parent, b)
      compressed == UFFind(UFFind(parent, a), b)
  IN IF ra = rb THEN compressed
     ELSE IF PointLess(rb, ra) THEN [compressed EXCEPT ![ra] = rb]
     ELSE [compressed EXCEPT ![rb] = ra]

-----------------------------------------------------------------------------
(* cell.hpp, cell_group.hpp, variable_pattern.hpp                          *)

DEFAULT_CELL_GROUP == -1

live_cell == <<-9999, -9999, -9999>>

dead_cell == <<-9998, -9998, -9998>>

\* the cell list of the constructor: t outermost, x innermost
NewCellList(bounds) ==
  LET sx == bounds[1][2] - bounds[1][1] + 1
      sy == bounds[2][2] - bounds[2][1] + 1
      st == bounds[3][2] - bounds[3][1] + 1
  IN [i \in 1..(sx * sy * st) |->
        [position |-> <<bounds[1][1] + ((i - 1) % sx),
                        bounds[2][1] + (((i - 1) \div sx) % sy),
                        bounds[3][1] + ((i - 1) \div (sx * sy))>>,
         cell_group |-> DEFAULT_CELL_GROUP,
         follows_rules |-> TRUE,
         known |-> FALSE,
         state |-> FALSE]]

\* VariablePattern(Bounds)
NewVariablePattern(bounds) ==
  [bounds |-> bounds,
   x_min |-> bounds[1][1], y_min |-> bounds[2][1], t_min |-> bounds[3][1],
   sz_x |-> bounds[1][2] - bounds[1][1] + 1,
   sz_y |-> bounds[2][2] - bounds[2][1] + 1,
   cell_groups |-> <<>>,
   cell_list |-> NewCellList(bounds),
   is_built |-> FALSE,
   cell_to_var |-> [q \in {} |-> 0],
   variable_count |-> 0]

\* cell_index + 1 (sequences count from 1); 0 when out of bounds
cell_index(pat, p) ==
  LET lx == p[1] - pat.x_min
      ly == p[2] - pat.y_min
      lt == p[3] - pat.t_min
      sz_t == pat.bounds[3][2] - pat.bounds[3][1] + 1
  IN IF lx < 0 \/ lx >= pat.sz_x \/ ly < 0 \/ ly >= pat.sz_y
        \/ lt < 0 \/ lt >= sz_t
     THEN 0
     ELSE lt * (pat.sz_y * pat.sz_x) + ly * pat.sz_x + lx + 1

get_cell(pat, p) ==
  IF cell_index(pat, p) > 0 THEN pat.cell_list[cell_index(pat, p)]
  ELSE [position |-> p, cell_group |-> DEFAULT_CELL_GROUP,
        follows_rules |-> TRUE, known |-> FALSE, state |-> FALSE]

is_boundary(pat, p) ==
  \/ p[1] = pat.bounds[1][1] \/ p[1] = pat.bounds[1][2]
  \/ p[2] = pat.bounds[2][1] \/ p[2] = pat.bounds[2][2]

shift_by(pat, rel_shift) ==
  [pat EXCEPT
     !.bounds = BoundsAdd(pat.bounds, rel_shift),
     !.x_min = pat.bounds[1][1] + rel_shift[1],
     !.y_min = pat.bounds[2][1] + rel_shift[2],
     !.t_min = pat.bounds[3][1] + rel_shift[3],
     !.cell_list = [i \in 1..Len(pat.cell_list) |->
                      [pat.cell_list[i] EXCEPT
                         !.position = PointAdd(@, rel_shift)]],
     !.is_built = FALSE]

add_cell_group(pat, group) ==
  [pat EXCEPT !.cell_groups = Append(@, group), !.is_built = FALSE]

\* a group with no spatial transformation
TimeGroup(time_transformation) ==
  [spatial_transformations |-> <<>>,
   time_transformation |-> time_transformation]

set_cell_group(pat, p, group_idx) ==
  IF cell_index(pat, p) > 0
  THEN [pat EXCEPT !.cell_list[cell_index(pat, p)].cell_group = group_idx,
                   !.is_built = FALSE]
  ELSE pat

\* predicate is a function on the cells of the pattern
set_cell_group_if(pat, group_idx, predicate) ==
  [pat EXCEPT
     !.cell_list = [i \in 1..Len(pat.cell_list) |->
                      IF predicate[pat.cell_list[i]]
                      THEN [pat.cell_list[i] EXCEPT !.cell_group = group_idx]
                      ELSE pat.cell_list[i]],
     !.is_built = FALSE]

\* a set_known that leaves the built flag alone
set_known_KeepsBuilt(pat, p, state) ==
  IF cell_index(pat, p) > 0
  THEN [pat EXCEPT !.cell_list[cell_index(pat, p)].known = TRUE,
                   !.cell_list[cell_index(pat, p)].state = state]
  ELSE pat

set_known(pat, p, state) ==
  IF cell_index(pat, p) > 0
  THEN [pat EXCEPT !.cell_list[cell_index(pat, p)].known = TRUE,
                   !.cell_list[cell_index(pat, p)].state = state,
                   !.is_built = FALSE]
  ELSE pat

set_known_if(pat, state, predicate) ==
  [pat EXCEPT
     !.cell_list = [i \in 1..Len(pat.cell_list) |->
                      IF predicate[pat.cell_list[i]]
                      THEN [pat.cell_list[i] EXCEPT !.known = TRUE,
                                                    !.state = state]
                      ELSE pat.cell_list[i]],
     !.is_built = FALSE]

\* build, lines 253-258, for one cell
UniteKnownCell(cell, uf) ==
  IF cell.known /\ cell.state THEN UFUnite(uf, cell.position, live_cell)
  ELSE IF cell.known /\ ~cell.state
    THEN UFUnite(uf, cell.position, dead_cell)
  ELSE uf

RECURSIVE UniteKnown(_, _, _, _)
\* the loop of lines 252-259 over cells lo..hi of cell_list, in order
UniteKnown(pat, lo, hi, uf) ==
  IF lo > hi THEN uf
  ELSE IF lo = hi THEN UniteKnownCell(pat.cell_list[lo], uf)
  ELSE LET mid == (lo + hi) \div 2
           first == UniteKnown(pat, lo, mid, uf)
       IN \* the cells up to mid are done before the later ones start
          IF DOMAIN first = {} THEN first
          ELSE UniteKnown(pat, mid + 1, hi, first)

\* a priority test that links only to strictly smaller group indices
LinkAllowed_StrictPriority(pat, cell, img) ==
  /\ get_cell(pat, img).cell_group # DEFAULT_CELL_GROUP
  /\ get_cell(pat, img).cell_group < cell.cell_group

\* a priority test without the test for the NONE sentinel
LinkAllowed_NoSentinelTest(pat, cell, img) ==
  get_cell(pat, img).cell_group <= cell.cell_group

\* a priority test that links to any grouped image
LinkAllowed_AnyPriority(pat, cell, img) ==
  get_cell(pat, img).cell_group # DEFAULT_CELL_GROUP

\* the priority test of lines 278 and 286
LinkAllowed(pat, cell, img) ==
  /\ get_cell(pat, img).cell_group # DEFAULT_CELL_GROUP
  /\ get_cell(pat, img).cell_group <= cell.cell_group

RECURSIVE UniteImages(_, _, _, _, _)
\* the loop over the spatial images, lines 274-280
UniteImages(pat, cell, images, j, uf) ==
  IF j > Len(images) THEN uf
  ELSE UniteImages(pat, cell, images, j + 1,
         IF LinkAllowed(pat, cell, images[j])
         THEN UFUnite(uf, cell.position, images[j])
         ELSE uf)

\* one iteration of the loop of lines 262-289
UniteCell(pat, cell, uf) ==
  IF cell.cell_group = DEFAULT_CELL_GROUP THEN uf
  ELSE
    LET cell_group == pat.cell_groups[cell.cell_group + 1]
        images == SortPoints(find_all_images(cell.position,
                     cell_group.spatial_transformations, pat.bounds))
        uf1 == UniteImages(pat, cell, images, 1, uf)
        time_img == transform(cell_group.time_transformation, cell.position)
    IN IF /\ in_limits(time_img, pat.bounds)
          /\ time_img # cell.position
          /\ LinkAllowed(pat, cell, time_img)
       THEN UFUnite(uf1, cell.position, time_img)
       ELSE uf1

RECURSIVE UniteGroups(_, _, _, _)
\* the loop of lines 262-289 over cells lo..hi of cell_list, in order
UniteGroups(pat, lo, hi, uf) ==
  IF lo > hi THEN uf
  ELSE IF lo = hi THEN UniteCell(pat, pat.cell_list[lo], uf)
  ELSE LET mid == (lo + hi) \div 2
           first == UniteGroups(pat, lo, mid, uf)
       IN IF DOMAIN first = {} THEN first
          ELSE UniteGroups(pat, mid + 1, hi, first)

\* the union-find of build after its two passes
BuildUnionFind(pat) ==
  LET keys == {live_cell, dead_cell}
                \cup {pat.cell_list[i].position : i \in 1..Len(pat.cell_list)}
      n == Len(pat.cell_list)
  IN UniteGroups(pat, 1, n, UniteKnown(pat, 1, n, [k \in keys |-> k]))

\* lines 296-298: repr_to_varindex, cell_to_var and next_var_index
FirstVars(uf) ==
  [repr_to_varindex |->
     [r \in {UFRoot(uf, dead_cell), UFRoot(uf, live_cell)} |->
        IF r = UFRoot(uf, live_cell) THEN 1 ELSE 0],
   cell_to_var |-> [q \in {} |-> 0],
   next_var_index |-> 2]

\* lines 301-307 for one cell
AssignVar(uf, cell_pos, acc) ==
  LET cell_repr == UFRoot(uf, cell_pos)
      fresh == cell_repr \notin DOMAIN acc.repr_to_varindex
      m == IF fresh
           THEN [r \in DOMAIN acc.repr_to_varindex \cup {cell_repr} |->
                   IF r = cell_repr THEN acc.next_var_index
                   ELSE acc.repr_to_varindex[r]]
           ELSE acc.repr_to_varindex
  IN [repr_to_varindex |-> Stored(m),
      cell_to_var |-> Stored([q \in DOMAIN acc.cell_to_var \cup {cell_pos} |->
                                IF q = cell_pos THEN m[cell_repr]
                                ELSE acc.cell_to_var[q]]),
      next_var_index |-> IF fresh THEN acc.next_var_index + 1
                         ELSE acc.next_var_index]

RECURSIVE AssignVars(_, _, _, _, _)
\* the loop of lines 300-308 over cells lo..hi of cell_list, in order
AssignVars(pat, uf, lo, hi, acc) ==
  IF lo > hi THEN acc
  ELSE IF lo = hi THEN AssignVar(uf, pat.cell_list[lo].position, acc)
  ELSE LET mid == (lo + hi) \div 2
           first == AssignVars(pat, uf, lo, mid, acc)
       IN IF first.next_var_index < 2 THEN first
          ELSE AssignVars(pat, uf, mid + 1, hi, first)

\* a build that counts the two constants among the variables
build_CountsConstants(pat) ==
  LET uf == BuildUnionFind(pat)
      a == AssignVars(pat, uf, 1, Len(pat.cell_list), FirstVars(uf))
  IN [pat EXCEPT !.cell_to_var = a.cell_to_var,
                 !.variable_count = a.next_var_index - 3,
                 !.is_built = TRUE]

\* a build that adds to the variable count of the build before
build_Accumulates(pat) ==
  LET uf == BuildUnionFind(pat)
      a == AssignVars(pat, uf, 1, Len(pat.cell_list), FirstVars(uf))
  IN [pat EXCEPT !.cell_to_var = a.cell_to_var,
                 !.variable_count = pat.variable_count + a.next_var_index - 2,
                 !.is_built = TRUE]

\* VariablePattern::build
build(pat) ==
  LET uf == BuildUnionFind(pat)
      a == AssignVars(pat, uf, 1, Len(pat.cell_list), FirstVars(uf))
  IN [pat EXCEPT !.cell_to_var = a.cell_to_var,
                 !.variable_count = a.next_var_index - 2,
                 !.is_built = TRUE]

\* VariablePattern::get_cell_value, called on a built pattern
get_cell_value(pat, p) ==
  IF p \in DOMAIN pat.cell_to_var THEN pat.cell_to_var[p] ELSE 0

contains(pat, p) == in_limits(p, pat.bounds)

\* a conversion that is one too high
to_global_OffByOne(base_var_index, local_val) ==
  IF local_val < 2 THEN local_val ELSE base_var_index + (local_val - 1)

to_global(base_var_index, local_val) ==
  IF local_val < 2 THEN local_val ELSE base_var_index + (local_val - 2)

\* the neighbourhood offsets in the order of the dy, dx loops
Offset(bit) == <<(bit % 3) - 1, (bit \div 3) - 1>>

\* a neighbourhood that reads the cells beyond the bounds as alive
TenCellsAt_EdgeAlive(pat, base_var_index, x, y, t) ==
  Stored([bit \in Bits |->
     IF bit = 9
     THEN to_global(base_var_index, get_cell_value(pat, <<x, y, t + 1>>))
     ELSE LET neighbor == <<x + Offset(bit)[1], y + Offset(bit)[2], t>>
          IN IF contains(pat, neighbor)
             THEN to_global(base_var_index, get_cell_value(pat, neighbor))
             ELSE 1])

\* ten_cells of the transition into (x, y, t + 1), lines 338-353
TenCellsAt(pat, base_var_index, x, y, t) ==
  Stored([bit \in Bits |->
     IF bit = 9
     THEN to_global(base_var_index, get_cell_value(pat, <<x, y, t + 1>>))
     ELSE LET neighbor == <<x + Offset(bit)[1], y + Offset(bit)[2], t>>
          IN IF contains(pat, neighbor)
             THEN to_global(base_var_index, get_cell_value(pat, neighbor))
             ELSE 0])

\* the output cells in loop order: t, then y, then x
OutputCells(bounds) ==
  LET sx == bounds[1][2] - bounds[1][1] + 1
      sy == bounds[2][2] - bounds[2][1] + 1
      st == bounds[3][2] - bounds[3][1]
  IN Stored([i \in 1..(sx * sy * st) |->
        <<bounds[1][1] + ((i - 1) % sx),
          bounds[2][1] + (((i - 1) \div sx) % sy),
          bounds[3][1] + ((i - 1) \div (sx * sy))>>])

RECURSIVE ConcatClauses(_, _, _)
\* per is a sequence of [thrown, clauses]: the clause lists of per[lo..hi]
\* joined in order, with the number of clauses each transition added;
\* nothing is returned once a builder has thrown
ConcatClauses(per, lo, hi) ==
  IF lo > hi THEN [thrown |-> FALSE, clauses |-> <<>>, counts |-> <<>>]
  ELSE IF lo = hi
    THEN IF per[lo].thrown
         THEN [thrown |-> TRUE, clauses |-> <<>>, counts |-> <<>>]
         ELSE [thrown |-> FALSE, clauses |-> per[lo].clauses,
               counts |-> <<Len(per[lo].clauses)>>]
  ELSE LET mid == (lo + hi) \div 2
           first == ConcatClauses(per, lo, mid)
           second == ConcatClauses(per, mid + 1, hi)
       IN IF first.thrown \/ second.thrown
          THEN [thrown |-> TRUE, clauses |-> <<>>, counts |-> <<>>]
          ELSE [thrown |-> FALSE, clauses |-> first.clauses \o second.clauses,
                counts |-> first.counts \o second.counts]

\* the clauses of the transition into (x, y, t + 1)
PatternClausesAt(pat, base_var_index, c) ==
  IF ~get_cell(pat, <<c[1], c[2], c[3] + 1>>).follows_rules
  THEN [thrown |-> FALSE, clauses |-> <<>>]
  ELSE TransitionClauses(TenCellsAt(pat, base_var_index, c[1], c[2], c[3]))

\* VariablePattern::get_clauses
get_clauses(pat, base_var_index) ==
  LET cells == OutputCells(pat.bounds)
      per == Stored([i \in 1..Len(cells) |->
                       PatternClausesAt(pat, base_var_index, cells[i])])
  IN ConcatClauses(per, 1, Len(per))

-----------------------------------------------------------------------------
(* variable_grid.cpp: the grid is indexed from <<0, 0, 0>>                 *)

construct_variable_grid(pattern) ==
  LET bounds == pattern.bounds
      origin == <<bounds[1][1], bounds[2][1], bounds[3][1]>>
      uf == BuildUnionFind(pattern)
      a == AssignVars(pattern, uf, 1, Len(pattern.cell_list), FirstVars(uf))
      index == PointsIn(BoundsAdd(bounds, PointSub(<<0, 0, 0>>, origin)))
  IN [size |-> <<bounds[1][2] - bounds[1][1] + 1,
                 bounds[2][2] - bounds[2][1] + 1,
                 bounds[3][2] - bounds[3][1] + 1>>,
      grid |-> [q \in index |-> a.cell_to_var[PointAdd(q, origin)]],
      follows_rule |-> [q \in index |->
                          get_cell(pattern, PointAdd(q, origin)).follows_rules]]

\* ten_cells of calculate_clauses, lines 193-206
GridTenCellsAt(var_grid, x, y, t) ==
  Stored([bit \in Bits |->
     IF bit = 9 THEN var_grid.grid[<<x, y, t + 1>>]
     ELSE LET x_new == x + Offset(bit)[1]
              y_new == y + Offset(bit)[2]
          IN IF x_new < 0 \/ x_new >= var_grid.size[1]
                \/ y_new < 0 \/ y_new >= var_grid.size[2]
             THEN 0
             ELSE var_grid.grid[<<x_new, y_new, t>>]])

RECURSIVE ConcatGrid(_, _, _)
ConcatGrid(per, lo, hi) ==
  IF lo > hi THEN <<>>
  ELSE IF lo = hi THEN per[lo].clauses
  ELSE ConcatGrid(per, lo, (lo + hi) \div 2)
         \o ConcatGrid(per, (lo + hi) \div 2 + 1, hi)

calculate_clauses(var_grid) ==
  LET cells == OutputCells(<<<<0, var_grid.size[1] - 1>>,
                             <<0, var_grid.size[2] - 1>>,
                             <<0, var_grid.size[3] - 1>>>>)
      per == Stored([i \in 1..Len(cells) |->
                IF var_grid.follows_rule[<<cells[i][1], cells[i][2],
                                           cells[i][3] + 1>>]
                THEN GridTransitionClauses(
                       GridTenCellsAt(var_grid, cells[i][1], cells[i][2],
                                      cells[i][3]))
                ELSE [clauses |-> <<>>, num_variables |-> 0]])
  IN [clauses |-> ConcatGrid(per, 1, Len(per)),
      num_variables |-> MaxOf({per[i].num_variables : i \in 1..Len(per)})]

-----------------------------------------------------------------------------
(* known_pattern.hpp, known_pattern.cpp.  An RLE string is a sequence of   *)
(* one-character strings.                                                  *)

Digits == <<"0", "1", "2", "3", "4", "5", "6", "7", "8", "9">>

IsDigit(c) == \E d \in 1..10 : Digits[d] = c

\* c - '0'
DigitValue(c) == (CHOOSE d \in 1..10 : Digits[d] = c) - 1

RECURSIVE SkipLine(_, _)
\* lines 13-14: the index of the next newline at or after i, or the end
SkipLine(rle, i) ==
  IF i <= Len(rle) /\ rle[i] # "\n" THEN SkipLine(rle, i + 1) ELSE i

\* the cells of a run of `count` live cells from (x, y)
RunCells(x, y, count) == {<<x + j, y, 0>> : j \in 0..(count - 1)}

RECURSIVE ParseRle(_, _, _)
\* the while loop of the constructor, lines 11-36; i counts from 1 and
\* st holds x, y, max_x, count and on_cells
ParseRle(rle, i, st) ==
  IF i > Len(rle) THEN st
  ELSE
    LET c == rle[i]
        i1 == IF c = "x" \/ c = "#" THEN SkipLine(rle, i) ELSE i
        count == IF st.count = 0 THEN 1 ELSE st.count
    IN IF IsDigit(c)
       THEN ParseRle(rle, i1 + 1,
                     [st EXCEPT !.count = st.count * 10 + DigitValue(c)])
       ELSE IF c = "b"
       THEN ParseRle(rle, i1 + 1,
                     [st EXCEPT !.x = st.x + count, !.count = 0])
       ELSE IF c = "o"
       THEN ParseRle(rle, i1 + 1,
                     [st EXCEPT
                        !.on_cells = st.on_cells \cup RunCells(st.x, st.y, count),
                        !.max_x = IF st.x + count - 1 > st.max_x
                                  THEN st.x + count - 1 ELSE st.max_x,
                        !.x = st.x + count,
                        !.count = 0])
       ELSE IF c = "$"
       THEN ParseRle(rle, i1 + 1,
                     [st EXCEPT !.y = st.y + count, !.x = 0, !.count = 0])
       ELSE IF c = "!" THEN st
       ELSE ParseRle(rle, i1 + 1, [st EXCEPT !.count = 0])

\* KnownPattern::get_state
known_get_state(pattern, p) == PointSub(p, pattern.shift) \in pattern.on_cells

\* std::min / std::max of update_bounds over a set of values
Lowest(first, values) ==
  IF \E v \in values : v < first
  THEN CHOOSE v \in values : \A w \in values : v <= w
  ELSE first

Highest(second, values) ==
  IF \E v \in values : v > second
  THEN CHOOSE v \in values : \A w \in values : w <= v
  ELSE second

\* an evolution step that looks only at the cells inside the bounds
add_next_gen_NoMargin(pattern, gen) ==
  LET born == {p \in {<<x, y, gen>> :
                        x \in pattern.bounds[1][1]..pattern.bounds[1][2],
                        y \in pattern.bounds[2][1]..pattern.bounds[2][2]} :
                 LET live_neighbors ==
                       Cardinality({n \in {<<p[1] + dx, p[2] + dy, gen - 1>> :
                                             dx \in -1..1, dy \in -1..1} :
                                      n # <<p[1], p[2], gen - 1>>
                                      /\ known_get_state(pattern, n)})
                     currently_alive ==
                       known_get_state(pattern, <<p[1], p[2], gen - 1>>)
                 IN (currently_alive /\ live_neighbors = 2)
                    \/ live_neighbors = 3}
  IN [pattern EXCEPT !.on_cells = pattern.on_cells \cup born,
                     !.bounds = <<pattern.bounds[1], pattern.bounds[2],
                                  <<0, gen>>>>]

\* KnownPattern::add_next_gen
add_next_gen(pattern, gen) ==
  LET new_on_cells ==
        {p \in {<<x, y, gen>> :
                  x \in (pattern.bounds[1][1] - 1)..(pattern.bounds[1][2] + 1),
                  y \in (pattern.bounds[2][1] - 1)..(pattern.bounds[2][2] + 1)} :
           LET live_neighbors ==
                 Cardinality({n \in {<<p[1] + dx, p[2] + dy, gen - 1>> :
                                       dx \in -1..1, dy \in -1..1} :
                                n # <<p[1], p[2], gen - 1>>
                                /\ known_get_state(pattern, n)})
               currently_alive ==
                 known_get_state(pattern, <<p[1], p[2], gen - 1>>)
           IN (currently_alive /\ live_neighbors = 2) \/ live_neighbors = 3}
      xs == {p[1] : p \in new_on_cells}
      ys == {p[2] : p \in new_on_cells}
  IN [pattern EXCEPT
        !.on_cells = pattern.on_cells \cup new_on_cells,
        !.bounds = <<<<Lowest(pattern.bounds[1][1], xs),
                       Highest(pattern.bounds[1][2], xs)>>,
                     <<Lowest(pattern.bounds[2][1], ys),
                       Highest(pattern.bounds[2][2], ys)>>,
                     <<0, gen>>>>]

RECURSIVE AddGens(_, _, _)
\* the loop of lines 39-41
AddGens(pattern, gen, max_gen) ==
  IF gen > max_gen THEN pattern
  ELSE AddGens(add_next_gen(pattern, gen), gen + 1, max_gen)

\* KnownPattern(rle, max_gen)
NewKnownPattern(rle, max_gen) ==
  LET st == ParseRle(rle, 1, [x |-> 0, y |-> 0, max_x |-> 0, count |-> 0,
                              on_cells |-> {}])
  IN AddGens([on_cells |-> st.on_cells,
              bounds |-> <<<<0, st.max_x>>, <<0, st.y>>, <<0, max_gen>>>>,
              shift |-> <<0, 0, 0>>],
             1, max_gen)

known_shift_by(pattern, rel_shift) ==
  [pattern EXCEPT !.shift = PointAdd(pattern.shift, rel_shift)]

known_get_bounds(pattern) == BoundsAdd(pattern.bounds, pattern.shift)

known_num_variables(pattern) == 0

known_get_cell_value(pattern, p) == IF known_get_state(pattern, p) THEN 1 ELSE 0

-----------------------------------------------------------------------------
(* sub_pattern.hpp: the virtual calls of SubPattern.  A sub-pattern is a   *)
(* KnownPattern record (it has on_cells) or a VariablePattern record.      *)

IsKnownPattern(pattern) == "on_cells" \in DOMAIN pattern

sub_get_bounds(pattern) ==
  IF IsKnownPattern(pattern) THEN known_get_bounds(pattern) ELSE pattern.bounds

sub_build(pattern) ==
  IF IsKnownPattern(pattern) THEN pattern ELSE build(pattern)

sub_num_variables(pattern) ==
  IF IsKnownPattern(pattern) THEN known_num_variables(pattern)
  ELSE pattern.variable_count

sub_get_cell_value(pattern, p) ==
  IF IsKnownPattern(pattern) THEN known_get_cell_value(pattern, p)
  ELSE get_cell_value(pattern, p)

sub_follows_rules(pattern, p) ==
  IF IsKnownPattern(pattern) THEN TRUE
  ELSE get_cell(pattern, p).follows_rules

\* KnownPattern::get_clauses returns an empty list
sub_get_clauses(pattern, base_var_index) ==
  IF IsKnownPattern(pattern)
  THEN [thrown |-> FALSE, clauses |-> <<>>, counts |-> <<>>]
  ELSE get_clauses(pattern, base_var_index)

\* the ten_cells of each transition of get_clauses, in loop order
PatternTenCells(pattern, base_var_index) ==
  IF IsKnownPattern(pattern) THEN <<>>
  ELSE LET cells == OutputCells(pattern.bounds)
       IN [i \in 1..Len(cells) |->
             TenCellsAt(pattern, base_var_index,
                        cells[i][1], cells[i][2], cells[i][3])]

-----------------------------------------------------------------------------
(* search_problem.hpp.  An entry holds the index of its pattern in the     *)
(* list of sub-patterns and its mask as the set of points it accepts; the  *)
(* flat arrays are functions on the points of the bounds.                  *)

\* SearchProblem(bounds); build_error is the message of the exception the
\* last build has thrown, as its sequence of words, numbers in decimal
NewSearchProblem(bounds) ==
  [bounds |-> bounds, entries |-> <<>>, is_built |-> FALSE,
   total_variables |-> 0, entry_base_var |-> <<>>,
   var_remap |-> <<>>, remapped_num_vars |-> 0,
   raw_cell_values |-> <<>>, cell_follows_rules |-> <<>>,
   remapped_cell_values |-> <<>>, build_error |-> <<>>]

add_entry(problem, pattern, mask) ==
  [problem EXCEPT !.entries = Append(@, [pattern |-> pattern, mask |-> mask]),
                  !.is_built = FALSE]

\* the last entry whose mask accepts p
EntryOf_Last(entries, p) ==
  IF \E i \in 1..Len(entries) : p \in entries[i].mask
  THEN CHOOSE i \in 1..Len(entries) :
         /\ p \in entries[i].mask
         /\ \A j \in (i + 1)..Len(entries) : p \notin entries[j].mask
  ELSE 0

\* lines 134-140: the first entry whose mask accepts p, counted from 1;
\* 0 for NOT_FOUND_INDEX
EntryOf(entries, p) ==
  IF \E i \in 1..Len(entries) : p \in entries[i].mask
  THEN CHOOSE i \in 1..Len(entries) :
         /\ p \in entries[i].mask
         /\ \A j \in 1..(i - 1) : p \notin entries[j].mask
  ELSE 0

raw_value_at(problem, p) ==
  IF in_limits(p, problem.bounds) THEN problem.raw_cell_values[p] ELSE 0

remapped_value_at(problem, p) ==
  IF in_limits(p, problem.bounds) THEN problem.remapped_cell_values[p] ELSE 0

RECURSIVE BaseVars(_, _, _, _)
\* lines 157-162: entry_base_var and the next_var after the last entry
BaseVars(entries, patterns, i, acc) ==
  IF i > Len(entries) THEN acc
  ELSE BaseVars(entries, patterns, i + 1,
                [entry_base_var |-> Append(acc.entry_base_var, acc.next_var),
                 next_var |-> acc.next_var
                   + sub_num_variables(patterns[entries[i].pattern])])

\* UnionFind<int>::find creates the keys it is asked for
MakeSet(parent, x) ==
  IF x \in DOMAIN parent THEN parent ELSE parent @@ (x :> x)

\* UnionFind<int>::unite
UniteInt(parent, a, b) ==
  LET made == MakeSet(MakeSet(parent, a), b)
      ra == UFRoot(made, a)
      rb == UFRoot(made, b)
      compressed == UFFind(UFFind(made, a), b)
  IN IF ra = rb THEN compressed
     ELSE IF rb < ra THEN [compressed EXCEPT ![ra] = rb]
     ELSE [compressed EXCEPT ![rb] = ra]

\* the signature of the transition out of c: the centre and the eight
\* neighbours sorted
SignatureAt(problem, c) ==
  LET around == <<0, 1, 2, 3, 5, 6, 7, 8>>
  IN <<raw_value_at(problem, c),
       SortSeq([i \in 1..8 |->
                  raw_value_at(problem, <<c[1] + Offset(around[i])[1],
                                          c[2] + Offset(around[i])[2],
                                          c[3]>>)],
               Less)>>

\* line 142
NotCoveredError ==
  <<"SearchProblem:", "not", "all", "cells", "are", "covered", "by", "masks">>

\* lines 265-272
ContradictionError(c, sig, output_val, recorded) ==
  <<"SearchProblem:", "contradictory", "known", "outputs", "for", "same",
    "transition", "signature:", "position", ToString(c[1]), ToString(c[2]),
    ToString(c[3]), "center", ToString(sig[1]), "neighbors">>
  \o [i \in 1..8 |-> ToString(sig[2][i])]
  \o <<"output", ToString(output_val), "vs", ToString(recorded)>>

\* one pass of the loop body of lines 237-278
DedupStep(problem, c, acc) ==
  IF acc.thrown THEN acc
  ELSE IF ~problem.cell_follows_rules[<<c[1], c[2], c[3] + 1>>] THEN acc
  ELSE
    LET output_val == raw_value_at(problem, <<c[1], c[2], c[3] + 1>>)
        sig == SignatureAt(problem, c)
    IN IF sig \notin DOMAIN acc.sig_to_output
       THEN [acc EXCEPT !.sig_to_output = @ @@ (sig :> output_val)]
       ELSE LET recorded == acc.sig_to_output[sig]
            IN IF output_val >= 2
               THEN [acc EXCEPT !.parent = UniteInt(@, output_val, recorded)]
               ELSE IF recorded < 2 /\ recorded # output_val
               THEN [acc EXCEPT
                       !.thrown = TRUE,
                       !.error = ContradictionError(c, sig, output_val,
                                                    recorded)]
               ELSE IF recorded >= 2
               THEN [acc EXCEPT !.parent = UniteInt(@, recorded, output_val)]
               ELSE acc

RECURSIVE DedupLoop(_, _, _, _)
DedupLoop(problem, cells, i, acc) ==
  IF i > Len(cells) THEN acc
  ELSE DedupLoop(problem, cells, i + 1, DedupStep(problem, cells[i], acc))

RECURSIVE RemapVars(_, _, _, _)
\* lines 288-299
RemapVars(parent, v, total_variables, acc) ==
  IF v >= 2 + total_variables THEN acc
  ELSE
    LET root == UFRoot(MakeSet(parent, v), v)
    IN IF root < 2
       THEN RemapVars(parent, v + 1, total_variables,
                      [acc EXCEPT !.var_remap = Append(@, root)])
       ELSE IF root \notin DOMAIN acc.root_to_new
       THEN RemapVars(parent, v + 1, total_variables,
                      [var_remap |-> Append(acc.var_remap, acc.next_new),
                       root_to_new |-> acc.root_to_new
                                         @@ (root :> acc.next_new),
                       next_new |-> acc.next_new + 1])
       ELSE RemapVars(parent, v + 1, total_variables,
                      [acc EXCEPT
                         !.var_remap = Append(@, acc.root_to_new[root])])

\* SearchProblem::deduplicate_transitions on a problem whose raw values are
\* in place
deduplicate_transitions(problem) ==
  LET loop == DedupLoop(problem, OutputCells(problem.bounds), 1,
                        [sig_to_output |-> <<>>, parent |-> <<>>,
                         thrown |-> FALSE, error |-> <<>>])
      remap == RemapVars(loop.parent, 2, problem.total_variables,
                         [var_remap |-> <<>>, root_to_new |-> <<>>,
                          next_new |-> 2])
  IN IF loop.thrown
     THEN [problem EXCEPT !.build_error = loop.error]
     ELSE [problem EXCEPT !.var_remap = remap.var_remap,
                          !.remapped_num_vars = remap.next_new - 2,
                          !.build_error = <<>>]

\* lines 150-152: the sub-patterns after each entry's pattern is built
BuildEntries(entries, patterns) ==
  LET used == {entries[i].pattern : i \in 1..Len(entries)}
  IN Stored([i \in 1..Len(patterns) |->
               IF i \in used THEN sub_build(patterns[i]) ELSE patterns[i]])

\* lines 178-183: the raw value at p
RawValue(entries, built, entry_base_var, p) ==
  LET entry_idx == EntryOf(entries, p)
      local_val == sub_get_cell_value(built[entries[entry_idx].pattern], p)
  IN IF local_val < 2 THEN local_val
     ELSE entry_base_var[entry_idx] + (local_val - 2)

\* lines 157-187: the variables counted, the raw values and follows_rules
\* filled in
CountVariables(problem, built, base) ==
  [problem EXCEPT
     !.entry_base_var = base.entry_base_var,
     !.total_variables = base.next_var - 2,
     !.is_built = TRUE,
     !.raw_cell_values =
       Stored([p \in PointsIn(problem.bounds) |->
                 RawValue(problem.entries, built, base.entry_base_var, p)]),
     !.cell_follows_rules =
       Stored([p \in PointsIn(problem.bounds) |->
                 sub_follows_rules(
                   built[problem.entries[EntryOf(problem.entries, p)].pattern],
                   p)])]

\* lines 193-200, skipped when deduplicate_transitions has thrown
RemapValues(problem) ==
  IF problem.build_error # <<>> THEN problem
  ELSE [problem EXCEPT
          !.remapped_cell_values =
            Stored([p \in PointsIn(problem.bounds) |->
                      IF problem.raw_cell_values[p] < 2
                      THEN problem.raw_cell_values[p]
                      ELSE problem.var_remap[problem.raw_cell_values[p] - 1]])]

\* lines 157-200 on the built sub-patterns
BuildCovered(problem, built) ==
  [problem |->
     RemapValues(deduplicate_transitions(
       CountVariables(problem, built,
                      BaseVars(problem.entries, built, 1,
                               [entry_base_var |-> <<>>, next_var |-> 2])))),
   patterns |-> built]

\* SearchProblem::build on the sub-patterns `patterns`: the problem and
\* the sub-patterns as the call leaves them
problem_build(problem, patterns) ==
  IF \E p \in PointsIn(problem.bounds) : EntryOf(problem.entries, p) = 0
  THEN [problem |-> [problem EXCEPT
                       !.build_error = NotCoveredError],
        patterns |-> patterns]
  ELSE BuildCovered(problem, BuildEntries(problem.entries, patterns))

\* SearchProblem::get_cell_value
problem_get_cell_value(problem, p) == remapped_value_at(problem, p)

\* SearchProblem::num_variables
problem_num_variables(problem) == problem.remapped_num_vars

\* lines 337-343
ProblemTenCells(problem, c) ==
  Stored([bit \in Bits |->
     IF bit = 9 THEN remapped_value_at(problem, <<c[1], c[2], c[3] + 1>>)
     ELSE remapped_value_at(problem, <<c[1] + Offset(bit)[1],
                                       c[2] + Offset(bit)[2], c[3]>>)])

\* the ten_cells of each transition of get_clauses, in loop order
ProblemTenCellsList(problem) ==
  LET cells == OutputCells(problem.bounds)
  IN [i \in 1..Len(cells) |-> ProblemTenCells(problem, cells[i])]

\* the clauses of the transition out of c
ProblemClausesAt(problem, c) ==
  IF ~problem.cell_follows_rules[<<c[1], c[2], c[3] + 1>>]
  THEN [thrown |-> FALSE, clauses |-> <<>>]
  ELSE TransitionClauses(ProblemTenCells(problem, c))

\* SearchProblem::get_clauses
problem_get_clauses(problem) ==
  LET cells == OutputCells(problem.bounds)
      per == Stored([i \in 1..Len(cells) |->
                       ProblemClausesAt(problem, cells[i])])
  IN ConcatClauses(per, 1, Len(per))

-----------------------------------------------------------------------------
(* State.  tr: one transition under encoding.  pats: the sub-patterns in   *)
(* existence.  out: the clause list last returned by a get_clauses, with   *)
(* the ids and neighbourhoods it was made from.                            *)
(* legacy: the VariableGrid and clause list of the variable_grid.cpp path. *)
(* calls: the arguments the client has passed so far.  sp: the             *)
(* SearchProblem.  dimacs: the string last made by make_dimacs_string, as  *)
(* its lines.  run: the call_solver under way: the position of the parent, *)
(* the temporary file, the descriptors the parent holds, the child, the    *)
(* pipe and the SolverResult.                                              *)

VARIABLES tr, pats, out, legacy, calls, sp, dimacs, run

vars == <<tr, pats, out, legacy, calls, sp, dimacs, run>>

NoTransition == [emitted |-> FALSE]

NoOutput == [src |-> 0]

NoLegacy == [src |-> 0]

NoCalls == [n |-> 0]

NoText == <<>>

\* no call_solver under way
NoRun == [pc |-> "idle"]

NoProblem == [entries |-> <<>>, is_built |-> FALSE]

-----------------------------------------------------------------------------
(* One transition                                                          *)

\* the known-cell layouts of test_calculate_clauses.cpp (none; corners and
\* centre; the output), four neighbours with the output, the nine sources,
\* and all ten cells
KnownLayouts ==
  {{}, {0, 2, 4, 6, 8}, {9}, {0, 1, 2, 3, 9}, 0..8, 0..9}

\* the ids of a transition whose cells in `known` are fixed to the bits of
\* `alive` and whose other cells are distinct variables 2, 3, ... in bit order
TenCellsOf(known, alive) ==
  [b \in Bits |->
     IF b \in known THEN (IF b \in alive THEN 1 ELSE 0)
     ELSE 2 + Cardinality({c \in Bits \ known : c < b})]

TrInit ==
  /\ \E known \in KnownLayouts : \E alive \in SUBSET known :
     tr = [known |-> known, alive |-> alive,
           ten_cells |-> TenCellsOf(known, alive),
           emitted |-> FALSE, thrown |-> FALSE,
           clauses |-> <<>>, grid_clauses |-> <<>>]
  /\ pats = <<>> /\ out = NoOutput /\ legacy = NoLegacy
  /\ calls = NoCalls /\ sp = NoProblem /\ dimacs = NoText /\ run = NoRun

EmitTransition ==
  /\ ~tr.emitted
  /\ LET res == TransitionClauses(tr.ten_cells)
     IN tr' = [tr EXCEPT !.emitted = TRUE, !.thrown = res.thrown,
                         !.clauses = res.clauses,
                         !.grid_clauses =
                           GridTransitionClauses(tr.ten_cells).clauses]
  /\ UNCHANGED <<pats, out, legacy, calls, sp, dimacs, run>>

SpecTransition == TrInit /\ [][EmitTransition]_vars

-----------------------------------------------------------------------------
(* Claims about one transition                                             *)

\* the solver variables of the cells left free
FreeVars(t) == {t.ten_cells[b] - 1 : b \in Bits \ t.known}

\* the 10-bit tuple: known cells by their value, free cells by the assignment
Completed(t, trueVars) ==
  t.alive \cup {b \in Bits \ t.known : (t.ten_cells[b] - 1) \in trueVars}

\* the assignments of the free variables that satisfy every clause are
\* exactly those whose completed tuple is a valid B3/S23 transition
EncodesRule(cl, t) ==
  \A trueVars \in SUBSET FreeVars(t) :
     AllSat(cl, trueVars) <=> ValidTuple(Completed(t, trueVars))

Models(cl, t) == {trueVars \in SUBSET FreeVars(t) : AllSat(cl, trueVars)}

\* C1: with ten distinct free variables both emitters give one clause per
\* prime implicant, satisfied by an assignment iff the output is the B3/S23
\* successor of the neighbourhood; exactly 512 of the 1024 assignments
\* satisfy them
C1_TenFreeCellsEncodeRule ==
  (tr.emitted /\ tr.known = {}) =>
     /\ ~tr.thrown
     /\ Len(tr.clauses) = Len(primeImplicants)
     /\ Len(tr.grid_clauses) = Len(primeImplicants)
     /\ EncodesRule(tr.clauses, tr)
     /\ EncodesRule(tr.grid_clauses, tr)
     /\ Cardinality(Models(tr.clauses, tr)) = 512
     /\ Cardinality(Models(tr.grid_clauses, tr)) = 512

C1_Witness ==
  /\ tr.emitted /\ tr.known = {}
  /\ Cardinality(FreeVars(tr)) = 10
  /\ Len(tr.clauses) > 0

\* C2: whatever subset of the ten cells is fixed to known values, the
\* emitted clauses accept an assignment of the other cells iff the completed
\* tuple is a valid B3/S23 transition
C2_KnownCellReduction ==
  tr.emitted =>
     /\ EncodesRule(tr.clauses, tr)
     /\ EncodesRule(tr.grid_clauses, tr)

-----------------------------------------------------------------------------
(* Building variable patterns                                              *)

FlipX == <<-1, 0, 0, 1, 1, 0, 0>>

NextGen == <<1, 0, 0, 1, 0, 0, 1>>

Glide == <<-1, 0, 0, 1, 1, 0, 1>>

\* test_lwss_search.cpp: (x, y, t) -> (x + 1, -y, t + 2)
LwssTransf == <<1, 0, 0, -1, 1, 0, 2>>

\* the cell groups the patterns below are given
GroupChoices ==
  {TimeGroup(NextGen),
   [spatial_transformations |-> <<FlipX>>, time_transformation |-> IDENTITY],
   TimeGroup(Glide)}

\* VariablePattern(width, height, max_gen)
BoundsOf(width, height, max_gen) ==
  <<<<0, width - 1>>, <<0, height - 1>>, <<0, max_gen>>>>

\* two cells wide, one high, generations 0 and 1
PairBounds == BoundsOf(2, 1, 1)

\* at most this many cells of a pattern are set known
MaxKnown == 2

\* get_cells as a set
Cells(pat) == {pat.cell_list[i] : i \in 1..Len(pat.cell_list)}

RECURSIVE AddCellGroups(_, _, _)
AddCellGroups(pat, groups, i) ==
  IF i > Len(groups) THEN pat
  ELSE AddCellGroups(add_cell_group(pat, groups[i]), groups, i + 1)

RECURSIVE SetCellGroups(_, _, _)
\* set_cell_group_if once for each group index, group_of maps positions
SetCellGroups(pat, group_of, idx) ==
  IF idx >= Len(pat.cell_groups) THEN pat
  ELSE SetCellGroups(
         set_cell_group_if(pat, idx,
                           [cell \in Cells(pat) |->
                              group_of[cell.position] = idx]),
         group_of, idx + 1)

RECURSIVE SetKnownCells(_, _, _)
\* set_alive / set_dead on each cell of `known` in point order
SetKnownCells(pat, known, alive) ==
  IF known = {} THEN pat
  ELSE LET p == CHOOSE q \in known : \A r \in known : r = q \/ PointLess(q, r)
       IN SetKnownCells(set_known(pat, p, p \in alive), known \ {p}, alive)

\* a pattern as a caller sets it up: construct, add groups, assign, fix cells
Configure(bounds, groups, group_of, known, alive) ==
  SetKnownCells(
    SetCellGroups(AddCellGroups(NewVariablePattern(bounds), groups, 1),
                  group_of, 0),
    known, alive)

\* create_lwss_search_pattern of test_lwss_search.cpp
LwssPattern ==
  LET pattern == add_cell_group(shift_by(NewVariablePattern(BoundsOf(6, 5, 2)),
                                         <<0, -2, 0>>),
                                TimeGroup(LwssTransf))
  IN set_cell_group_if(pattern, 0, [cell \in Cells(pattern) |-> TRUE])

\* the ways to fix at most MaxKnown of the points
KnownChoices(points) ==
  UNION {{[known |-> k, alive |-> a] : a \in SUBSET k} :
           k \in {kk \in SUBSET points : Cardinality(kk) <= MaxKnown}}

\* every assignment of two groups and at most MaxKnown known cells on
\* PairBounds
PairPatterns ==
  {Configure(PairBounds, <<g0, g1>>, group_of, kc.known, kc.alive) :
     g0 \in GroupChoices, g1 \in GroupChoices,
     group_of \in [PointsIn(PairBounds) -> {DEFAULT_CELL_GROUP, 0, 1}],
     kc \in KnownChoices(PointsIn(PairBounds))}

\* the positions of a pattern's cells
Positions(pat) == {pat.cell_list[i].position : i \in 1..Len(pat.cell_list)}

BuildInit ==
  /\ tr = NoTransition /\ out = NoOutput /\ legacy = NoLegacy
  /\ calls = NoCalls /\ sp = NoProblem /\ dimacs = NoText /\ run = NoRun
  /\ \/ \E pat \in PairPatterns : pats = <<pat>>
     \/ pats = <<LwssPattern>>

\* pattern i is built
Build(i) ==
  /\ i \in 1..Len(pats)
  /\ legacy.src = 0
  /\ pats' = [pats EXCEPT ![i] = sub_build(@)]
  /\ UNCHANGED <<tr, out, legacy, calls, sp, dimacs, run>>

BuildNext == \E i \in 1..Len(pats) : Build(i)

SpecBuild == BuildInit /\ [][BuildNext]_vars

-----------------------------------------------------------------------------
(* Encoding variable patterns                                              *)

\* on three columns: x -> 2 - x
FlipX3 == <<-1, 0, 0, 1, 2, 0, 0>>

\* on three by three: a quarter turn about the centre
Rot90 == <<0, -1, 1, 0, 2, 0, 0>>

\* create_boat_pattern and test_blinker_oscillator: three by three,
\* generations 0 and 1
EvolveBounds == BoundsOf(3, 3, 1)

\* generation 0 fixed to `alive`, generation 1 left unknown
EvolvePattern(alive) ==
  LET gen0 == {p \in PointsIn(EvolveBounds) : p[3] = 0}
  IN SetKnownCells(NewVariablePattern(EvolveBounds), gen0,
                   {<<c[1], c[2], 0>> : c \in alive})

EvolvePatterns ==
  {EvolvePattern(alive) : alive \in SUBSET {<<x, y>> : x \in 0..2, y \in 0..2}}

\* the groups given to a pattern whose cells all share one group
SymmetryChoices ==
  {TimeGroup(NextGen),
   TimeGroup(IDENTITY),
   [spatial_transformations |-> <<FlipX3>>, time_transformation |-> NextGen],
   [spatial_transformations |-> <<Rot90, FlipX3>>,
    time_transformation |-> IDENTITY],
   TimeGroup(<<0, -1, 1, 0, 2, 0, 1>>)}

\* every cell in group 0
OneGroup(bounds, group, kc) ==
  Configure(bounds, <<group>>, [p \in PointsIn(bounds) |-> 0],
            kc.known, kc.alive)

OneGroupPatterns ==
  {OneGroup(EvolveBounds, g, [known |-> {}, alive |-> {}]) :
     g \in SymmetryChoices}
  \cup {OneGroup(PairBounds, g, kc) :
          g \in GroupChoices, kc \in KnownChoices(PointsIn(PairBounds))}
  \cup {LwssPattern}

\* the base_var_index arguments tried
BaseChoices == {2, 5}

EncodeInit ==
  /\ tr = NoTransition /\ out = NoOutput /\ legacy = NoLegacy
  /\ calls = NoCalls /\ sp = NoProblem /\ dimacs = NoText /\ run = NoRun
  /\ \E pat \in EvolvePatterns \cup OneGroupPatterns : pats = <<pat>>

\* pats[i].get_clauses(base_var_index); is_built is asserted
GetClauses(i, base_var_index) ==
  /\ i \in 1..Len(pats)
  /\ IF IsKnownPattern(pats[i]) THEN TRUE ELSE pats[i].is_built
  /\ out.src = 0
  /\ LET res == sub_get_clauses(pats[i], base_var_index)
     IN out' = [src |-> i, base_var_index |-> base_var_index,
                thrown |-> res.thrown, clauses |-> res.clauses,
                num_variables |-> sub_num_variables(pats[i]),
                counts |-> res.counts,
                ten_cells |-> PatternTenCells(pats[i], base_var_index),
                ids |-> {sub_get_cell_value(pats[i], p) :
                           p \in PointsIn(sub_get_bounds(pats[i]))}]
  /\ UNCHANGED <<tr, pats, legacy, calls, sp, dimacs, run>>

\* construct_variable_grid(pats[i]), by a caller that takes this path
\* instead of build and get_clauses
ConstructGrid(i) ==
  /\ i \in 1..Len(pats)
  /\ legacy.src = 0
  /\ ~pats[i].is_built
  /\ legacy' = [src |-> i, var_grid |-> construct_variable_grid(pats[i]),
                calculated |-> FALSE, clauses |-> <<>>, num_variables |-> 0]
  /\ UNCHANGED <<tr, pats, out, calls, sp, dimacs, run>>

\* calculate_clauses(var_grid, num_variables)
CalculateClauses ==
  /\ legacy.src # 0
  /\ ~legacy.calculated
  /\ LET res == calculate_clauses(legacy.var_grid)
     IN legacy' = [legacy EXCEPT !.calculated = TRUE,
                                 !.clauses = res.clauses,
                                 !.num_variables = res.num_variables]
  /\ UNCHANGED <<tr, pats, out, calls, sp, dimacs, run>>

EncodeNext ==
  \/ \E i \in 1..Len(pats) : Build(i)
  \/ \E i \in 1..Len(pats) : \E base \in BaseChoices : GetClauses(i, base)
  \/ \E i \in 1..Len(pats) : ConstructGrid(i)
  \/ CalculateClauses

SpecEncode == EncodeInit /\ [][EncodeNext]_vars

-----------------------------------------------------------------------------
(* Claims about build                                                      *)

\* the two constant nodes, named by the points build reserves for them
LIVE == live_cell

DEAD == dead_cell

\* link (a): c has a group, img is a spatial image or the in-bounds time
\* image of c, and img's group is not NONE and at most c's group
SymmetryLink(pat, c, img) ==
  LET cell == get_cell(pat, c)
      g == cell.cell_group
      group == pat.cell_groups[g + 1]
  IN /\ g # DEFAULT_CELL_GROUP
     /\ \/ img \in find_all_images(c, group.spatial_transformations, pat.bounds)
        \/ /\ img = transform(group.time_transformation, c)
           /\ in_limits(img, pat.bounds)
     /\ get_cell(pat, img).cell_group # DEFAULT_CELL_GROUP
     /\ get_cell(pat, img).cell_group <= g

\* the links of (a) and (b), in both directions
Linked(pat, m, n) ==
  LET Directed(a, b) ==
        IF a \in {LIVE, DEAD} THEN FALSE
        ELSE IF b = LIVE THEN get_cell(pat, a).known /\ get_cell(pat, a).state
        ELSE IF b = DEAD THEN get_cell(pat, a).known /\ ~get_cell(pat, a).state
        ELSE SymmetryLink(pat, a, b)
  IN Directed(m, n) \/ Directed(n, m)

RECURSIVE Reach(_, _, _)
\* the nodes connected to a node of `seen`
Reach(pat, nodes, seen) ==
  LET more == seen \cup {n \in nodes : \E m \in seen : Linked(pat, m, n)}
  IN IF more = seen THEN seen ELSE Reach(pat, nodes, more)

IdsFollowLinks(pat) ==
  LET nodes == Positions(pat) \cup {LIVE, DEAD}
  IN \A p \in Positions(pat) :
       LET component == Reach(pat, nodes, {p})
       IN \A q \in Positions(pat) :
            (get_cell_value(pat, p) = get_cell_value(pat, q))
              <=> (q \in component)

\* C6: after build, two cells of a variable pattern have the same id
\* exactly when the symmetry links and the known-cell links connect them.
C6_SameIdIffLinked ==
  \A i \in 1..Len(pats) : pats[i].is_built => IdsFollowLinks(pats[i])

\* a built pattern in which a cell is left apart from its in-bounds time
\* image of higher priority index, and two distinct cells share a variable
C6_Witness ==
  \E i \in 1..Len(pats) :
    LET pat == pats[i] IN
    /\ pat.is_built
    /\ \E c \in Positions(pat) :
         LET g == get_cell(pat, c).cell_group
             img == transform(pat.cell_groups[g + 1].time_transformation, c)
         IN /\ g # DEFAULT_CELL_GROUP
            /\ in_limits(img, pat.bounds)
            /\ get_cell(pat, img).cell_group > g
            /\ get_cell_value(pat, c) # get_cell_value(pat, img)
    /\ \E p, q \in Positions(pat) :
         p # q /\ get_cell_value(pat, p) = get_cell_value(pat, q)
              /\ get_cell_value(pat, p) >= 2

-----------------------------------------------------------------------------
(* Claims about the encoding of a pattern                                  *)

\* the solver variables of a clause
VarsOf(c) == {Abs(c[i]) : i \in 1..Len(c)} \ {0}

RECURSIVE Component(_, _)
\* the variables tied to those of `seen` through shared clauses
Component(cl, seen) ==
  LET more == seen \cup UNION {VarsOf(cl[i]) :
                                 i \in {j \in 1..Len(cl) :
                                          VarsOf(cl[j]) \cap seen # {}}}
  IN IF more = seen THEN seen ELSE Component(cl, more)

RECURSIVE CountModels(_, _)
\* the number of assignments of `variables` that satisfy every clause:
\* the product over the groups of variables that share clauses
CountModels(cl, variables) ==
  IF variables = {} THEN 1
  ELSE LET v == CHOOSE w \in variables : TRUE
           comp == Component(cl, {v})
           own == {j \in 1..Len(cl) : VarsOf(cl[j]) \cap comp # {}}
           here == Cardinality({a \in SUBSET comp :
                                  \A j \in own : ClauseSat(cl[j], a)})
       IN here * CountModels(cl, variables \ comp)

\* B3/S23 on the cells of a set, every cell outside the set being dead
LiveNeighbours(alive, x, y) ==
  Cardinality({c \in alive : c # <<x, y>> /\ Abs(c[1] - x) <= 1
                                          /\ Abs(c[2] - y) <= 1})

SuccessorAlive(alive, x, y) ==
  \/ LiveNeighbours(alive, x, y) = 3
  \/ <<x, y>> \in alive /\ LiveNeighbours(alive, x, y) = 2

\* two generations, no group, generation 0 known, generation 1 unknown
EvolveCase(pat) ==
  /\ pat.bounds[3][2] = pat.bounds[3][1] + 1
  /\ Len(pat.cell_groups) = 0
  /\ \A i \in 1..Len(pat.cell_list) :
       LET cell == pat.cell_list[i]
       IN IF cell.position[3] = pat.bounds[3][1] THEN cell.known
          ELSE ~cell.known /\ cell.follows_rules

\* the live cells of generation 0 as set by the caller
Gen0Alive(pat) ==
  {<<c.position[1], c.position[2]>> :
     c \in {d \in Cells(pat) : d.position[3] = pat.bounds[3][1] /\ d.state}}

\* decoding: alive iff id = 1, or id >= 2 and literal id - 1 is true
DecodeAlive(id, trueVars) == id = 1 \/ (id >= 2 /\ (id - 1) \in trueVars)

\* cl over variables 1..n has one model, and it decodes, through the ids of
\* the generation 1 cells, to the successor of generation 0
OneModelTheSuccessor(pat, ids, cl, n) ==
  LET gen1 == {p \in Positions(pat) : p[3] = pat.bounds[3][2]}
      alive == Gen0Alive(pat)
      model == {ids[p] - 1 :
                  p \in {q \in gen1 : ids[q] >= 2
                                      /\ SuccessorAlive(alive, q[1], q[2])}}
  IN /\ CountModels(cl, 1..n) = 1
     /\ model \subseteq 1..n
     /\ AllSat(cl, model)
     /\ \A p \in gen1 :
          DecodeAlive(ids[p], model) <=> SuccessorAlive(alive, p[1], p[2])

\* the ids of a constructed VariableGrid, by pattern position
GridIds(pat, var_grid) ==
  [p \in Positions(pat) |->
     var_grid.grid[PointSub(p, <<pat.bounds[1][1], pat.bounds[2][1],
                                 pat.bounds[3][1]>>)]]

OneGroupCase(pat) ==
  /\ Len(pat.cell_groups) >= 1
  /\ \E g \in 0..(Len(pat.cell_groups) - 1) :
       \A i \in 1..Len(pat.cell_list) : pat.cell_list[i].cell_group = g

\* the time transform of the group all cells are in
TimeTransf(pat) ==
  pat.cell_groups[pat.cell_list[1].cell_group + 1].time_transformation

\* ids agree along the time transform, and are fewer than the cells when
\* some cell has an in-bounds image other than itself
SharedAlongTime(pat, ids) ==
  LET T == TimeTransf(pat)
      sources == {p \in Positions(pat) : in_limits(transform(T, p), pat.bounds)}
  IN /\ \A p \in sources : ids[p] = ids[transform(T, p)]
     /\ (\E p \in sources : transform(T, p) # p) =>
          Cardinality({ids[p] : p \in Positions(pat)})
            < Cardinality(Positions(pat))

\* C5: when all cells are in one group with time transform T, p and T(p)
\* get the same id whenever both are in bounds, and there are fewer ids
\* than cells as soon as one such pair has p # T(p).
C5_TimeImagesShareIds ==
  \A i \in 1..Len(pats) :
    OneGroupCase(pats[i]) =>
      /\ pats[i].is_built => SharedAlongTime(pats[i], pats[i].cell_to_var)
      /\ legacy.src = i =>
           SharedAlongTime(pats[i], GridIds(pats[i], legacy.var_grid))

\* the 6 x 5 x 3 pattern of the LWSS search is built, (0, 1, 0) and its
\* image (1, -1, 2) share a variable, and fewer than 90 ids are in use
C5_Witness ==
  /\ Len(pats) = 1 /\ pats[1].is_built /\ OneGroupCase(pats[1])
  /\ Len(pats[1].cell_list) = 90
  /\ TimeTransf(pats[1]) = LwssTransf
  /\ pats[1].cell_to_var[<<0, 1, 0>>] = pats[1].cell_to_var[<<1, -1, 2>>]
  /\ pats[1].cell_to_var[<<0, 1, 0>>] >= 2
  /\ pats[1].variable_count < 90

-----------------------------------------------------------------------------
(* Known patterns: construction from an RLE string, then shift_by calls    *)

\* the box the generated live-cell sets are drawn from
LiveBox == {<<x, y>> : x \in 0..2, y \in 0..1}

\* one row of the box, one tag per cell
RowOf(live, y) == [x \in 1..3 |-> IF <<x - 1, y>> \in live THEN "o" ELSE "b"]

\* an RLE string of the live-cell set `live` of the box
RleOf(live) == RowOf(live, 0) \o <<"$">> \o RowOf(live, 1) \o <<"!">>

MaxGen == 2

MaxShifts == 2

\* the strings of test_rle_parsing.cpp and test_evolution.cpp, each with the
\* live cells it denotes and the max_gen it is evolved to
TestRles ==
  { [rle |-> <<"3", "o", "!">>,
     live |-> {<<0, 0>>, <<1, 0>>, <<2, 0>>}, max_gen |-> 4],
    [rle |-> <<"x", " ", "=", " ", "3", ",", " ", "y", " ", "=", " ", "1",
               "\n", "3", "o", "!">>,
     live |-> {<<0, 0>>, <<1, 0>>, <<2, 0>>}, max_gen |-> 1],
    [rle |-> <<"#", "C", " ", "c", "\n", "#", "N", " ", "n", "\n",
               "x", " ", "=", " ", "2", ",", " ", "y", " ", "=", " ", "2",
               "\n", "2", "o", "$", "2", "o", "!">>,
     live |-> {<<0, 0>>, <<1, 0>>, <<0, 1>>, <<1, 1>>}, max_gen |-> 1],
    [rle |-> <<"b", "o", "$", "2", "b", "o", "$", "3", "o", "!">>,
     live |-> {<<1, 0>>, <<2, 1>>, <<0, 2>>, <<1, 2>>, <<2, 2>>},
     max_gen |-> 4],
    [rle |-> <<"o", "2", "$", "1", "0", "b", "o", "!">>,
     live |-> {<<0, 0>>, <<10, 2>>}, max_gen |-> 1] }

KnownCases ==
  TestRles \cup
  {[rle |-> RleOf(live), live |-> live, max_gen |-> g] :
     live \in SUBSET LiveBox, g \in 0..MaxGen}

ShiftChoices == {<<1, 0, 0>>, <<-2, -4, 0>>, <<0, 0, 1>>, <<0, 1, -1>>}

KnownInit ==
  /\ tr = NoTransition /\ out = NoOutput /\ legacy = NoLegacy
  /\ sp = NoProblem /\ dimacs = NoText /\ run = NoRun
  /\ \E c \in KnownCases :
       /\ pats = <<NewKnownPattern(c.rle, c.max_gen)>>
       /\ calls = [n |-> 0, live |-> c.live, max_gen |-> c.max_gen,
                   rel_shifts |-> <<0, 0, 0>>]

\* pats[i].shift_by(rel_shift)
KnownShift(i, rel_shift) ==
  /\ i \in 1..Len(pats)
  /\ calls.n < MaxShifts
  /\ pats' = [pats EXCEPT ![i] = known_shift_by(@, rel_shift)]
  /\ calls' = [calls EXCEPT !.n = @ + 1,
                            !.rel_shifts = PointAdd(@, rel_shift)]
  /\ UNCHANGED <<tr, out, legacy, sp, dimacs, run>>

KnownNext ==
  \E i \in 1..Len(pats) : \E rel_shift \in ShiftChoices :
    KnownShift(i, rel_shift)

SpecKnown == KnownInit /\ [][KnownNext]_vars

-----------------------------------------------------------------------------
(* Claims about known patterns                                             *)

\* the cells within `margin` of the bounding box of `alive`, the origin
\* included
PlaneBox(alive, margin) ==
  LET xs == {c[1] : c \in alive}
      ys == {c[2] : c \in alive}
  IN {<<x, y>> : x \in (Lowest(0, xs) - margin)..(Highest(0, xs) + margin),
                 y \in (Lowest(0, ys) - margin)..(Highest(0, ys) + margin)}

\* one B3/S23 step on the unbounded plane
PlaneStep(alive) ==
  {c \in PlaneBox(alive, 1) : SuccessorAlive(alive, c[1], c[2])}

RECURSIVE Generation(_, _)
\* the g-th generation of `live`
Generation(live, g) ==
  IF g = 0 THEN live ELSE PlaneStep(Generation(live, g - 1))

\* the points at which get_state is compared with the plane: every point
\* whose unshifted image is within max_gen + 1 cells and one generation of
\* the initial cells
Probes ==
  {PointAdd(<<c[1], c[2], g>>, calls.rel_shifts) :
     c \in PlaneBox(calls.live, calls.max_gen + 1),
     g \in -1..(calls.max_gen + 1)}

\* C4: a KnownPattern constructed from the live cells L with max_gen = G
\* and shifted by calls that sum to s has get_state(p) true exactly when
\* p - s = (x, y, g) with 0 <= g <= G and (x, y) alive in the g-th B3/S23
\* generation of L on the unbounded plane; the shifts change no live cell.
C4_KnownStateIsEvolvedPlane ==
  calls.n \in 0..MaxShifts /\ "live" \in DOMAIN calls =>
    \A i \in 1..Len(pats) :
      LET gens == Stored([g \in 0..calls.max_gen |->
                            Generation(calls.live, g)])
          points == Probes
      IN /\ \A p \in points :
              known_get_state(pats[i], p) <=>
                LET q == PointSub(p, calls.rel_shifts)
                IN /\ q[3] \in 0..calls.max_gen
                   /\ <<q[1], q[2]>> \in gens[q[3]]
         /\ \A c \in pats[i].on_cells :
              PointAdd(c, pats[i].shift) \in points

\* "3o!" with max_gen = 4 after two shifts: vertical at generation 3
C4_Witness ==
  /\ "live" \in DOMAIN calls
  /\ calls.live = {<<0, 0>>, <<1, 0>>, <<2, 0>>}
  /\ calls.max_gen = 4
  /\ calls.n = 2
  /\ calls.rel_shifts = <<-2, -4, 1>>
  /\ known_get_state(pats[1], <<-1, -5, 4>>)
  /\ known_get_state(pats[1], <<-1, -3, 4>>)
  /\ ~known_get_state(pats[1], <<-2, -4, 4>>)
  /\ known_get_state(pats[1], <<-2, -4, 5>>)

-----------------------------------------------------------------------------
(* A search problem over a VariablePattern and a KnownPattern, which are   *)
(* also built and encoded on their own while the problem has no entry; a   *)
(* clause list is the last thing asked for                                 *)

\* three cells wide, three high, generations 0 and 1
ProblemBounds == BoundsOf(3, 3, 1)

\* generation 1 of the bounds
Gen1(x, y) == <<x, y, 1>>

ProblemVariablePatterns ==
  { NewVariablePattern(ProblemBounds),
    OneGroup(ProblemBounds, TimeGroup(NextGen), [known |-> {}, alive |-> {}]),
    OneGroup(ProblemBounds,
             [spatial_transformations |-> <<FlipX3>>,
              time_transformation |-> IDENTITY],
             [known |-> {}, alive |-> {}]),
    SetKnownCells(NewVariablePattern(ProblemBounds),
                  {Gen1(0, 0), Gen1(2, 0)}, {Gen1(0, 0)}),
    SetKnownCells(NewVariablePattern(ProblemBounds),
                  {Gen1(0, 0), Gen1(2, 0)}, {}),
    SetKnownCells(NewVariablePattern(ProblemBounds),
                  {Gen1(1, 0), Gen1(2, 0)}, {Gen1(1, 0)}),
    shift_by(NewVariablePattern(ProblemBounds), <<1, 0, 0>>) }

ProblemKnownPatterns ==
  {NewKnownPattern(RleOf(live), 1) :
     live \in {{}, {<<0, 0>>, <<1, 0>>, <<2, 0>>},
               {<<0, 0>>, <<1, 0>>, <<0, 1>>, <<1, 1>>}}}

\* the entries added, each the index of its pattern and its mask: the
\* known pattern on generation 0 or everywhere, the variable pattern
\* everywhere or on the two left columns
EntryChoices ==
  {<<2, {p \in PointsIn(ProblemBounds) : p[3] = 0}>>,
   <<2, PointsIn(ProblemBounds)>>,
   <<1, PointsIn(ProblemBounds)>>,
   <<1, {p \in PointsIn(ProblemBounds) : p[1] <= 1}>>}

MaxEntries == 2

ProblemInit ==
  /\ tr = NoTransition /\ out = NoOutput /\ legacy = NoLegacy
  /\ calls = NoCalls /\ dimacs = NoText /\ run = NoRun
  /\ sp = NewSearchProblem(ProblemBounds)
  /\ \E variable \in ProblemVariablePatterns :
       \E known \in ProblemKnownPatterns : pats = <<variable, known>>

\* sp.add_entry(&pats[i], mask)
AddEntry(i, mask) ==
  /\ i \in 1..Len(pats)
  /\ Len(sp.entries) < MaxEntries
  /\ sp' = add_entry(sp, i, mask)
  /\ UNCHANGED <<tr, pats, out, legacy, calls, dimacs, run>>

\* sp.build()
BuildProblem ==
  /\ ~sp.is_built
  /\ LET r == problem_build(sp, pats)
     IN sp' = r.problem /\ pats' = r.patterns
  /\ UNCHANGED <<tr, out, legacy, calls, dimacs, run>>

\* sp.get_clauses() after a build that returned
ProblemClauses ==
  /\ sp.is_built
  /\ sp.build_error = <<>>
  /\ out.src = 0
  /\ LET res == problem_get_clauses(sp)
     IN out' = [src |-> Len(pats) + 1, base_var_index |-> 2,
                thrown |-> res.thrown, clauses |-> res.clauses,
                num_variables |-> problem_num_variables(sp),
                counts |-> res.counts,
                ten_cells |-> ProblemTenCellsList(sp),
                ids |-> {problem_get_cell_value(sp, p) :
                           p \in PointsIn(sp.bounds)}]
  /\ UNCHANGED <<tr, pats, legacy, calls, sp, dimacs, run>>

ProblemNext ==
  \/ \E i \in 1..Len(pats) : Len(sp.entries) = 0 /\ Build(i)
  \/ \E i \in 1..Len(pats) : \E base \in BaseChoices :
       Len(sp.entries) = 0 /\ GetClauses(i, base)
  \/ \E entry \in EntryChoices : out.src = 0 /\ AddEntry(entry[1], entry[2])
  \/ out.src = 0 /\ BuildProblem
  \/ ProblemClauses

SpecProblem == ProblemInit /\ [][ProblemNext]_vars

-----------------------------------------------------------------------------
(* Claims about the ids and clauses of patterns and problems               *)

\* 0, 1 and the ids of n variables
ValueRange(n) == {0, 1} \cup 2..(n + 1)

\* C7: after a successful build of a VariablePattern, a KnownPattern or a
\* SearchProblem, get_cell_value of every in-bounds point is 0, 1 or an
\* integer in [2, 2 + num_variables()).
C7_CellValuesInRange ==
  /\ \A i \in 1..Len(pats) :
       IF IsKnownPattern(pats[i])
       THEN \A p \in PointsIn(known_get_bounds(pats[i])) :
              known_get_cell_value(pats[i], p)
                \in ValueRange(known_num_variables(pats[i]))
       ELSE pats[i].is_built =>
              \A p \in PointsIn(pats[i].bounds) :
                get_cell_value(pats[i], p)
                  \in ValueRange(pats[i].variable_count)
  /\ "build_error" \in DOMAIN sp /\ sp.is_built /\ sp.build_error = <<>> =>
       \A p \in PointsIn(sp.bounds) :
         problem_get_cell_value(sp, p)
           \in ValueRange(problem_num_variables(sp))

\* a built problem whose deduplication merged variables and whose highest
\* id is in use, over a built pattern and a known pattern with a live cell
C7_Witness ==
  /\ "build_error" \in DOMAIN sp /\ sp.is_built /\ sp.build_error = <<>>
  /\ sp.remapped_num_vars >= 1
  /\ sp.remapped_num_vars < sp.total_variables
  /\ \E p \in PointsIn(sp.bounds) :
       problem_get_cell_value(sp, p) = sp.remapped_num_vars + 1
  /\ pats[1].is_built /\ pats[1].variable_count >= 1
  /\ \E p \in PointsIn(pats[1].bounds) :
       get_cell_value(pats[1], p) = pats[1].variable_count + 1
  /\ \E p \in PointsIn(known_get_bounds(pats[2])) :
       known_get_cell_value(pats[2], p) = 1

\* the literals of a clause: its nonzero slots
Literals(clause) == {clause[j] : j \in 1..Len(clause)} \ {0}

\* C8: every clause returned by VariablePattern::get_clauses and
\* SearchProblem::get_clauses has at least one literal, at most 9, and never
\* a literal with its negation; the ClauseBuilder overflow is never raised.
C8_ClausesWellFormed ==
  out.src # 0 =>
    /\ ~out.thrown
    /\ \A k \in 1..Len(out.clauses) :
         /\ Literals(out.clauses[k]) # {}
         /\ Cardinality({j \in 1..Len(out.clauses[k]) :
                           out.clauses[k][j] # 0}) <= 9
         /\ \A l \in Literals(out.clauses[k]) :
              (0 - l) \notin Literals(out.clauses[k])

\* a problem's clause list in which one clause names a shared variable
\* twice
C8_Witness ==
  /\ out.src = Len(pats) + 1
  /\ \E i \in 1..Len(out.ten_cells) : \E b, c \in Bits :
       b # c /\ out.ten_cells[i][b] >= 2
             /\ out.ten_cells[i][b] = out.ten_cells[i][c]
  /\ \E k \in 1..Len(out.clauses) :
       \E i, j \in 1..MAX_CLAUSE_LEN :
         i # j /\ out.clauses[k][i] # 0
               /\ out.clauses[k][i] = out.clauses[k][j]

RECURSIVE SumTo(_, _)
\* counts[1] + ... + counts[i]
SumTo(counts, i) == IF i = 0 THEN 0 ELSE counts[i] + SumTo(counts, i - 1)

\* C10: in every emitted clause a cell with id k >= 2 appears only as the
\* literal +(k-1) or -(k-1), known cells contribute no literal, and every
\* literal l has 1 <= |l| <= num_variables() of the emitter (a stand-alone
\* VariablePattern being given base_var_index = 2).
C10_LiteralsNameVariables ==
  out.src # 0 /\ out.base_var_index = 2 /\ ~out.thrown =>
    /\ \A k \in 1..Len(out.clauses) :
         \A l \in Literals(out.clauses[k]) :
           /\ 1 <= Abs(l) /\ Abs(l) <= out.num_variables
           /\ Abs(l) + 1 \in out.ids
    /\ \A i \in 1..Len(out.counts) :
         LET unknown == {out.ten_cells[i][b] - 1 : b \in
                           {c \in Bits : out.ten_cells[i][c] >= 2}}
         IN \A k \in (SumTo(out.counts, i - 1) + 1)..SumTo(out.counts, i) :
              \A l \in Literals(out.clauses[k]) : Abs(l) \in unknown

\* clauses of a problem with known cells and variables, and a transition
\* whose ten cells are all known and which added no clause
C10_Witness ==
  /\ out.src = Len(pats) + 1
  /\ Len(out.clauses) > 0
  /\ {0, 1} \subseteq out.ids
  /\ \E k \in 1..Len(out.clauses) :
       \E l \in Literals(out.clauses[k]) : Abs(l) = out.num_variables
  /\ \E i \in 1..Len(out.counts) :
       /\ \A b \in Bits : out.ten_cells[i][b] < 2
       /\ out.counts[i] = 0

-----------------------------------------------------------------------------
(* Writing a clause list as DIMACS                                         *)

\* the literal lists the clauses are made from: one or two literals that
\* do not cancel, and nine literals
LiteralLists ==
  {<<l>> : l \in {-2, -1, 1, 2}}
  \cup {lm \in {-2, -1, 1, 2} \X {-2, -1, 1, 2} : lm[1] + lm[2] # 0}
  \cup {<<-9, -8, -7, 1, 2, 3, 4, 5, 6>>}

\* clauses as ClauseBuilder::get and make_clause return them
ClauseChoices ==
  {BuilderGet([NewBuilder EXCEPT !.lits = lits]) : lits \in LiteralLists}
  \cup {make_clause(lits) : lits \in LiteralLists}

MaxClauses == 2

RECURSIVE ClauseLists(_)
\* the clause lists of n clauses
ClauseLists(n) ==
  IF n = 0 THEN {<<>>}
  ELSE {Append(cl, c) : cl \in ClauseLists(n - 1), c \in ClauseChoices}

DimacsInit ==
  /\ tr = NoTransition /\ out = NoOutput /\ legacy = NoLegacy
  /\ pats = <<>> /\ sp = NoProblem /\ dimacs = NoText /\ run = NoRun
  /\ \E n \in 0..MaxClauses : \E clauses \in ClauseLists(n) :
       calls = [n |-> 0, clauses |-> clauses, num_variables |-> 9]

\* make_dimacs_string(clauses, num_variables)
MakeDimacs ==
  /\ calls.n = 0
  /\ dimacs' = make_dimacs_string(calls.clauses, calls.num_variables)
  /\ calls' = [calls EXCEPT !.n = 1]
  /\ UNCHANGED <<tr, pats, out, legacy, sp, run>>

SpecDimacs == DimacsInit /\ [][MakeDimacs]_vars

RECURSIVE JoinLits(_, _)
\* the nonzero literals of the clause from slot i on, a space after each
JoinLits(clause, i) ==
  IF i > Len(clause) THEN ""
  ELSE IF clause[i] = 0 THEN JoinLits(clause, i + 1)
  ELSE ToString(clause[i]) \o " " \o JoinLits(clause, i + 1)

\* C9: make_dimacs_string writes 'p cnf <num_variables> <number of
\* clauses>' and then one line per clause: the nonzero literals of the
\* clause separated by spaces and a single terminating 0, the zero padding
\* of a clause with fewer than 9 literals not being written.
C9_DimacsLinesAreLiterals ==
  dimacs # NoText =>
    /\ Len(dimacs) = 1 + Len(calls.clauses)
    /\ dimacs[1] = "p cnf " \o ToString(calls.num_variables) \o " "
                     \o ToString(Len(calls.clauses))
    /\ \A k \in 1..Len(calls.clauses) :
         dimacs[k + 1] = JoinLits(calls.clauses[k], 1) \o "0"

-----------------------------------------------------------------------------
(* Claims about the owner of a point of a search problem                   *)

\* the entries whose mask accepts p
Accepting(p) == {i \in 1..Len(sp.entries) : p \in sp.entries[i].mask}

\* the first variable id of entry i: 2 and the variables of the entries
\* before it
BaseOfEntry(i) ==
  2 + SumTo([j \in 1..Len(sp.entries) |->
               sub_num_variables(pats[sp.entries[j].pattern])], i - 1)

\* what the pattern of entry i reports at p, as a raw value
ReportedRaw(i, p) ==
  LET local == sub_get_cell_value(pats[sp.entries[i].pattern], p)
  IN IF local < 2 THEN local ELSE local - 2 + BaseOfEntry(i)

BuiltProblem ==
  "build_error" \in DOMAIN sp /\ sp.is_built /\ sp.build_error = <<>>

\* C11: after a build that succeeded, every in-bounds point has an accepting
\* entry, and its raw value and follows_rules bit are the ones reported by
\* the pattern of the accepting entry that was inserted first, whatever
\* later entries accept the point too.
C11_FirstAcceptingEntryOwns ==
  BuiltProblem =>
    \A p \in PointsIn(sp.bounds) :
      /\ Accepting(p) # {}
      /\ \E owner \in Accepting(p) :
           /\ \A i \in Accepting(p) : owner <= i
           /\ sp.raw_cell_values[p] = ReportedRaw(owner, p)
           /\ sp.cell_follows_rules[p] =
                sub_follows_rules(pats[sp.entries[owner].pattern], p)

\* a built problem with a point that both entries accept and for which
\* their patterns report different values
C11_Witness ==
  /\ BuiltProblem
  /\ Len(sp.entries) = 2
  /\ sp.entries[1].pattern # sp.entries[2].pattern
  /\ \E p \in PointsIn(sp.bounds) :
       /\ Accepting(p) = {1, 2}
       /\ ReportedRaw(1, p) # ReportedRaw(2, p)
       /\ sp.raw_cell_values[p] = ReportedRaw(1, p)

-----------------------------------------------------------------------------
(* Claims about the errors of SearchProblem::build                         *)

\* the in-bounds points that no entry accepts
Uncovered == {p \in PointsIn(sp.bounds) : Accepting(p) = {}}

\* the message holds the three coordinates of p in a row
Names(message, p) ==
  \E i \in 1..(Len(message) - 2) :
    /\ message[i] = ToString(p[1])
    /\ message[i + 1] = ToString(p[2])
    /\ message[i + 2] = ToString(p[3])

\* C12: SearchProblem::build raises an error if and only if some in-bounds
\* point is accepted by no entry, it raises it before any sub-pattern is
\* built, and the error names an uncovered point.
C12_BuildRaisesIffUncovered ==
  [][BuildProblem =>
       /\ (sp'.build_error # <<>>) <=> (Uncovered # {})
       /\ sp'.build_error # <<>> =>
            /\ pats' = pats
            /\ \E p \in Uncovered : Names(sp'.build_error, p)]_vars

-----------------------------------------------------------------------------
(* Claims about contradictions found by VariablePattern::build             *)

\* C13: build never completes normally with a class that holds both a
\* known-alive and a known-dead cell; uniting the LIVE and DEAD sentinels is
\* reported to the caller as an error instead.
C13_NoClassBothAliveAndDead ==
  \A i \in 1..Len(pats) :
    ~IsKnownPattern(pats[i]) /\ pats[i].is_built =>
      \A c, d \in Cells(pats[i]) :
        c.known /\ c.state /\ d.known /\ ~d.state =>
          get_cell_value(pats[i], c.position)
            # get_cell_value(pats[i], d.position)

-----------------------------------------------------------------------------
(* Claims about the transitions of a search problem that share a signature *)

\* the output cell of the transition out of c
OutputOf(c) == <<c[1], c[2], c[3] + 1>>

\* the pairs of rule-following transitions with the same signature over raw
\* ids: the same centre and the same multiset of eight neighbours
SameSignature ==
  LET cells == OutputCells(sp.bounds)
      following == {i \in 1..Len(cells) :
                      sp.cell_follows_rules[OutputOf(cells[i])]}
  IN {pair \in following \X following :
        SignatureAt(sp, cells[pair[1]]) = SignatureAt(sp, cells[pair[2]])}

\* the raw output of the i-th transition in scan order
RawOutput(i) == sp.raw_cell_values[OutputOf(OutputCells(sp.bounds)[i])]

\* C14: when two rule-following transitions have the same signature and the
\* raw outputs 0 and 1, build raises an error, whatever the scan order and
\* whatever was scanned before them.
C14_ConflictingOutputsRaise ==
  "build_error" \in DOMAIN sp /\ sp.is_built =>
    ((\E pair \in SameSignature :
        RawOutput(pair[1]) = 0 /\ RawOutput(pair[2]) = 1)
       => sp.build_error # <<>>)

\* the output id of the i-th transition as get_cell_value returns it
RemappedOutput(i) ==
  problem_get_cell_value(sp, OutputOf(OutputCells(sp.bounds)[i]))

\* C20: after a build without error, two rule-following transitions with the
\* same signature over raw ids have the same remapped output id.
C20_SameSignatureSameOutput ==
  BuiltProblem =>
    \A pair \in SameSignature :
      RemappedOutput(pair[1]) = RemappedOutput(pair[2])

-----------------------------------------------------------------------------
(* The life of one VariablePattern and of a SearchProblem over it: any     *)
(* sequence of mutator calls and builds.  calls logs the client's calls:   *)
(* n their number, last the latest one, pattern_clean / problem_clean that *)
(* the object has been built and no call has changed its state since,      *)
(* repeated that the latest call is a build right after a build of the     *)
(* same object, previous what the object answered before that build.       *)

MaxCalls == 4

\* what a client has set on a pattern, without the built flag and the
\* caches of build
Core(pat) ==
  [bounds |-> pat.bounds, cell_groups |-> pat.cell_groups,
   cell_list |-> pat.cell_list]

\* the answers of a built pattern
Observed(pat) ==
  [values |-> [p \in PointsIn(pat.bounds) |-> get_cell_value(pat, p)],
   num_variables |-> pat.variable_count,
   clauses |-> get_clauses(pat, 2).clauses]

\* the answers of a built problem
ObservedProblem(problem) ==
  [values |-> [p \in PointsIn(problem.bounds) |->
                 problem_get_cell_value(problem, p)],
   num_variables |-> problem_num_variables(problem),
   clauses |-> problem_get_clauses(problem).clauses]

LifeInit ==
  /\ tr = NoTransition /\ out = NoOutput /\ legacy = NoLegacy
  /\ dimacs = NoText /\ run = NoRun
  /\ pats = <<NewVariablePattern(PairBounds)>>
  /\ sp = NewSearchProblem(PairBounds)
  /\ calls = [n |-> 0, last |-> "", pattern_clean |-> FALSE,
              problem_clean |-> FALSE, repeated |-> FALSE, previous |-> <<>>]

\* a mutator call that leaves the pattern as `mutated`
Mutate(mutated) ==
  /\ calls.n < MaxCalls
  /\ pats' = [pats EXCEPT ![1] = mutated]
  /\ calls' = [calls EXCEPT
                 !.n = @ + 1, !.last = "mutate",
                 !.pattern_clean = @ /\ Core(mutated) = Core(pats[1]),
                 !.repeated = FALSE, !.previous = <<>>]
  /\ UNCHANGED <<tr, out, legacy, sp, dimacs, run>>

ShiftBy(rel_shift) == Mutate(shift_by(pats[1], rel_shift))

AddCellGroup(group) ==
  /\ Len(pats[1].cell_groups) = 0
  /\ Mutate(add_cell_group(pats[1], group))

SetCellGroup(p, group_idx) ==
  /\ group_idx < Len(pats[1].cell_groups)
  /\ Mutate(set_cell_group(pats[1], p, group_idx))

SetCellGroupIf(group_idx) ==
  /\ group_idx < Len(pats[1].cell_groups)
  /\ Mutate(set_cell_group_if(pats[1], group_idx,
                              [cell \in Cells(pats[1]) |-> TRUE]))

\* set_alive, set_dead
SetKnown(p, state) == Mutate(set_known(pats[1], p, state))

SetKnownIf(state) ==
  Mutate(set_known_if(pats[1], state,
                      [cell \in Cells(pats[1]) |->
                         cell.position[3] = pats[1].bounds[3][1]]))

\* pats[1].build()
PatternBuild ==
  /\ calls.n < MaxCalls
  /\ pats' = [pats EXCEPT ![1] = build(@)]
  /\ calls' = [calls EXCEPT
                 !.n = @ + 1, !.last = "pattern.build",
                 !.pattern_clean = TRUE,
                 !.repeated = (calls.last = "pattern.build"),
                 !.previous = IF calls.last = "pattern.build"
                              THEN Observed(pats[1]) ELSE <<>>]
  /\ UNCHANGED <<tr, out, legacy, sp, dimacs, run>>

\* sp.add_entry(&pats[1], mask)
LifeAddEntry(mask) ==
  /\ calls.n < MaxCalls
  /\ Len(sp.entries) < MaxEntries
  /\ sp' = add_entry(sp, 1, mask)
  /\ calls' = [calls EXCEPT !.n = @ + 1, !.last = "add_entry",
                            !.problem_clean = FALSE,
                            !.repeated = FALSE, !.previous = <<>>]
  /\ UNCHANGED <<tr, pats, out, legacy, dimacs, run>>

\* sp.build()
ProblemBuild ==
  /\ calls.n < MaxCalls
  /\ LET r == problem_build(sp, pats)
         again == /\ calls.last = "problem.build"
                  /\ sp.is_built /\ sp.build_error = <<>>
     IN /\ sp' = r.problem
        /\ pats' = r.patterns
        /\ calls' = [calls EXCEPT
                       !.n = @ + 1, !.last = "problem.build",
                       !.pattern_clean = @ \/ r.problem.is_built,
                       !.problem_clean = TRUE,
                       !.repeated = again,
                       !.previous = IF again THEN ObservedProblem(sp)
                                    ELSE <<>>]
  /\ UNCHANGED <<tr, out, legacy, dimacs, run>>

LifeNext ==
  \/ ShiftBy(<<1, 0, 0>>)
  \/ AddCellGroup(TimeGroup(NextGen))
  \/ \E p \in {<<0, 0, 0>>, <<5, 5, 5>>} : SetCellGroup(p, 0)
  \/ SetCellGroupIf(0)
  \/ \E p \in {<<0, 0, 1>>, <<5, 5, 5>>} : \E state \in BOOLEAN :
       SetKnown(p, state)
  \/ SetKnownIf(FALSE)
  \/ PatternBuild
  \/ \E mask \in {PointsIn(PairBounds),
                  {p \in PointsIn(PairBounds) : p[3] = 0}} :
       LifeAddEntry(mask)
  \/ ProblemBuild

SpecLifecycle == LifeInit /\ [][LifeNext]_vars

-----------------------------------------------------------------------------
(* Claims about the life of a pattern and of a problem                     *)

\* C15: a build right after a build of the same VariablePattern or
\* SearchProblem, with no other call in between, leaves get_cell_value of
\* every point, num_variables and the clause list of get_clauses as they
\* were.
C15_BuildIsIdempotent ==
  "repeated" \in DOMAIN calls /\ calls.repeated =>
    IF calls.last = "pattern.build"
    THEN Observed(pats[1]) = calls.previous
    ELSE sp.build_error = <<>> /\ ObservedProblem(sp) = calls.previous

\* a problem built twice in a row, over a pattern with a cell group, with
\* variables and clauses
C15_Witness ==
  /\ "repeated" \in DOMAIN calls /\ calls.repeated
  /\ calls.last = "problem.build"
  /\ Len(pats[1].cell_groups) > 0
  /\ calls.previous.num_variables > 0
  /\ Len(calls.previous.clauses) > 0

\* C16: the built flag of a pattern is true only if the pattern has been
\* built and no mutator has changed its state since, and the built flag of
\* a problem only if it has been built and no entry was added since.
C16_BuiltOnlyIfUnchangedSinceBuild ==
  "pattern_clean" \in DOMAIN calls =>
    /\ pats[1].is_built => calls.pattern_clean
    /\ sp.is_built => calls.problem_clean

\* a pattern and a problem that were both built and both changed since:
\* the pattern by a set_known on one of its cells, the problem by add_entry
C16_Witness ==
  /\ "pattern_clean" \in DOMAIN calls
  /\ calls.last = "mutate"
  /\ DOMAIN pats[1].cell_to_var # {} /\ ~pats[1].is_built
  /\ \E i \in 1..Len(pats[1].cell_list) : pats[1].cell_list[i].known
  /\ sp.raw_cell_values # <<>> /\ ~sp.is_built
  /\ Len(sp.entries) = 2

-----------------------------------------------------------------------------
(* Claims about the transitions a sub-pattern encodes                      *)

\* the nine cells around c at its generation
Neighbourhood(c) ==
  {<<c[1] + Offset(bit)[1], c[2] + Offset(bit)[2], c[3]>> : bit \in 0..8}

\* C17: get_clauses of a sub-pattern generates clauses only for transitions
\* whose nine neighbourhood cells and output cell lie within the pattern's
\* bounds; an output cell on the spatial boundary gets no clause.
C17_ClausesOnlyInsideBounds ==
  out.src \in 1..Len(pats) =>
    LET bounds == sub_get_bounds(pats[out.src])
        cells == OutputCells(bounds)
    IN \A k \in 1..Len(cells) :
         out.counts[k] > 0 =>
           \A p \in Neighbourhood(cells[k]) \cup {OutputOf(cells[k])} :
             in_limits(p, bounds)

-----------------------------------------------------------------------------
(* solver.hpp: parse_dimacs_output.  The solver's output is the sequence   *)
(* of its lines, a line the sequence of its characters.                    *)

SATISFIABLE == <<"S", "A", "T", "I", "S", "F", "I", "A", "B", "L", "E">>

UNSATISFIABLE == <<"U", "N">> \o SATISFIABLE

\* line.find(word) != std::string::npos
Find(line, word) ==
  \E i \in 1..(Len(line) - Len(word) + 1) :
    SubSeq(line, i, i + Len(word) - 1) = word

RECURSIVE SkipSpaces(_, _)
\* operator>> skips the white space before a number
SkipSpaces(chars, i) ==
  IF i <= Len(chars) /\ chars[i] = " " THEN SkipSpaces(chars, i + 1) ELSE i

RECURSIVE ReadDigits(_, _, _)
ReadDigits(chars, i, acc) ==
  IF i <= Len(chars) /\ IsDigit(chars[i])
  THEN ReadDigits(chars, i + 1,
                  [value |-> acc.value * 10 + DigitValue(chars[i]),
                   count |-> acc.count + 1])
  ELSE [value |-> acc.value, count |-> acc.count, next |-> i]

\* vss >> lit from position i: whether it read a number, the number and
\* the position after it
ReadInt(chars, i) ==
  LET start == SkipSpaces(chars, i)
      signed == start <= Len(chars) /\ chars[start] \in {"-", "+"}
      digits == ReadDigits(chars, IF signed THEN start + 1 ELSE start,
                           [value |-> 0, count |-> 0])
  IN [ok |-> digits.count > 0,
      value |-> IF signed /\ chars[start] = "-" THEN 0 - digits.value
                ELSE digits.value,
      next |-> digits.next]

RECURSIVE ReadLiterals(_, _, _)
\* lines 62-66: the nonzero numbers read until the stream fails
ReadLiterals(chars, i, solution) ==
  LET read == ReadInt(chars, i)
  IN IF ~read.ok THEN solution
     ELSE ReadLiterals(chars, read.next,
                       IF read.value # 0 THEN solution \cup {read.value}
                       ELSE solution)

\* lines 60-66: line.substr(2) throws when the line has one character
ParseValues(result, line) ==
  IF Len(line) < 2 THEN [result EXCEPT !.thrown = "std::out_of_range"]
  ELSE [result EXCEPT
          !.solution = @ \cup ReadLiterals(SubSeq(line, 3, Len(line)), 1, {})]

\* lines 52-57
ParseStatus(result, line) ==
  IF Find(line, SATISFIABLE) /\ ~Find(line, UNSATISFIABLE)
  THEN [result EXCEPT !.status = "SAT"]
  ELSE IF Find(line, UNSATISFIABLE)
  THEN [result EXCEPT !.status = "UNSAT"]
  ELSE result

\* the body of the getline loop, lines 48-67
ParseLine(result, line) ==
  IF result.thrown # "" THEN result
  ELSE IF Len(line) = 0 THEN result
  ELSE IF line[1] = "s" THEN ParseStatus(result, line)
  ELSE IF line[1] = "v" THEN ParseValues(result, line)
  ELSE result

RECURSIVE ParseLines(_, _, _)
ParseLines(output, i, result) ==
  IF i > Len(output) THEN result
  ELSE ParseLines(output, i + 1, ParseLine(result, output[i]))

\* thrown is the exception that left the function, "" when it returned
parse_dimacs_output(output) ==
  ParseLines(output, 1,
             [status |-> "ERROR", solution |-> {}, error_message |-> "",
              thrown |-> ""])

-----------------------------------------------------------------------------
(* solver.hpp: call_solver, one action for each system call of the parent  *)
(* and for each step of the child.  calls.solver_output is what the solver *)
(* prints when it runs.  run.pc is the next step of the parent; temp_file  *)
(* is "none", "exists" or "unlinked"; fds are the descriptors open in the  *)
(* parent; child is "none", "forked", "ready", "running" or "exited";      *)
(* pipe is the text written and not yet read; writers tells whether the    *)
(* child holds the write end; child_at_unlink is the child's state when    *)
(* the file was unlinked.                                                  *)

\* at most this many lines of solver output
MaxLines == 2

LineChoices ==
  { <<>>,
    <<"s", " ">> \o SATISFIABLE,
    <<"s", " ">> \o UNSATISFIABLE,
    <<"s", " ", "U", "N", "K", "N", "O", "W", "N">>,
    <<"v">>,
    <<"v", " ", "1", " ", "-", "2", " ", "0">>,
    <<"c", " ", "o", "k">> }

RECURSIVE OutputTexts(_)
OutputTexts(n) ==
  IF n = 0 THEN {<<>>}
  ELSE {Append(text, line) : text \in OutputTexts(n - 1), line \in LineChoices}

NewResult ==
  [status |-> "ERROR", solution |-> {}, error_message |-> "", thrown |-> ""]

SolverInit ==
  /\ tr = NoTransition /\ out = NoOutput /\ legacy = NoLegacy
  /\ pats = <<>> /\ sp = NoProblem
  /\ dimacs = make_dimacs_string(<<>>, 0)
  /\ \E n \in 0..MaxLines : \E text \in OutputTexts(n) :
       calls = [n |-> 0, solver_output |-> text]
  /\ run = [pc |-> "mkstemp", temp_file |-> "none", fds |-> {},
            child |-> "none", writers |-> FALSE, pipe |-> <<>>,
            output |-> <<>>, child_at_unlink |-> "none",
            result |-> NewResult]

Step(next) == UNCHANGED <<tr, pats, out, legacy, calls, sp, dimacs>> /\ run' = next

\* lines 92-96
Mkstemp ==
  /\ run.pc = "mkstemp"
  /\ \/ Step([run EXCEPT !.pc = "write", !.temp_file = "exists",
                         !.fds = @ \cup {"temp_fd"}])
     \/ Step([run EXCEPT
                !.pc = "returned",
                !.result.error_message = "Failed to create temp file"])

\* lines 97-98
WriteTemp ==
  /\ run.pc = "write"
  /\ Step([run EXCEPT !.pc = "pipe", !.fds = @ \ {"temp_fd"}])

\* lines 102-106
Pipe ==
  /\ run.pc = "pipe"
  /\ \/ Step([run EXCEPT !.pc = "fork",
                         !.fds = @ \cup {"stdout_pipe[0]", "stdout_pipe[1]"}])
     \/ Step([run EXCEPT !.pc = "returned", !.temp_file = "unlinked",
                         !.result.error_message = "Failed to create pipe"])

\* lines 108-113
Fork ==
  /\ run.pc = "fork"
  /\ \/ Step([run EXCEPT !.pc = "close_write", !.child = "forked",
                         !.writers = TRUE])
     \/ Step([run EXCEPT !.pc = "returned", !.temp_file = "unlinked",
                         !.result.error_message = "Failed to fork"])

\* lines 117-122, in the child
ChildSetup ==
  /\ run.child = "forked"
  /\ Step([run EXCEPT !.child = "ready"])

\* lines 124-127, in the child: the solver starts, or _exit(1)
ChildExec ==
  /\ run.child = "ready"
  /\ \/ Step([run EXCEPT !.child = "running"])
     \/ Step([run EXCEPT !.child = "exited", !.writers = FALSE])

\* the solver prints its output and exits
ChildRun ==
  /\ run.child = "running"
  /\ Step([run EXCEPT !.child = "exited", !.writers = FALSE,
                      !.pipe = @ \o calls.solver_output])

\* line 131
CloseWrite ==
  /\ run.pc = "close_write"
  /\ Step([run EXCEPT !.pc = "read", !.fds = @ \ {"stdout_pipe[1]"}])

\* lines 137-140: read returns what is in the pipe, or 0 at end of file,
\* which is when the pipe is empty and no write end is open
Read ==
  /\ run.pc = "read"
  /\ \/ /\ run.pipe # <<>>
        /\ Step([run EXCEPT !.output = @ \o run.pipe, !.pipe = <<>>])
     \/ /\ run.pipe = <<>> /\ ~run.writers
        /\ "stdout_pipe[1]" \notin run.fds
        /\ Step([run EXCEPT !.pc = "close_read"])

\* line 141
CloseRead ==
  /\ run.pc = "close_read"
  /\ Step([run EXCEPT !.pc = "wait", !.fds = @ \ {"stdout_pipe[0]"}])

\* line 145: waitpid returns when the child has exited
Wait ==
  /\ run.pc = "wait"
  /\ run.child = "exited"
  /\ Step([run EXCEPT !.pc = "unlink"])

\* line 148
Unlink ==
  /\ run.pc = "unlink"
  /\ Step([run EXCEPT !.pc = "parse", !.temp_file = "unlinked",
                      !.child_at_unlink = run.child])

\* lines 151-157; an exception of parse_dimacs_output leaves call_solver
ParseOutput ==
  /\ run.pc = "parse"
  /\ LET result == parse_dimacs_output(run.output)
     IN IF result.thrown # ""
        THEN Step([run EXCEPT !.pc = "thrown", !.result = result])
        ELSE IF result.status = "ERROR" /\ result.error_message = ""
        THEN Step([run EXCEPT
                     !.pc = "returned",
                     !.result = [result EXCEPT !.error_message =
                                   "Failed to parse solver output"]])
        ELSE Step([run EXCEPT !.pc = "returned", !.result = result])

SolverNext ==
  \/ Mkstemp \/ WriteTemp \/ Pipe \/ Fork
  \/ ChildSetup \/ ChildExec \/ ChildRun
  \/ CloseWrite \/ Read \/ CloseRead \/ Wait \/ Unlink \/ ParseOutput

SpecSolver == SolverInit /\ [][SolverNext]_vars

-----------------------------------------------------------------------------
(* Claims about the solver interface                                       *)

\* some line of the output is a status line with this word
HasStatusLine(output, word) ==
  \E i \in 1..Len(output) : output[i] = <<"s", " ">> \o word

\* C18: for every solver output, parse_dimacs_output (and so call_solver)
\* returns a result and never throws: SAT when an 's SATISFIABLE' line is
\* present, UNSAT when an 's UNSATISFIABLE' line is present, ERROR when no
\* status line is recognisable, malformed lines such as 'v' included.
C18_ParseReturnsStatus ==
  run.pc \in {"returned", "thrown"} /\ run.child_at_unlink # "none" =>
    LET sat == HasStatusLine(run.output, SATISFIABLE)
        unsat == HasStatusLine(run.output, UNSATISFIABLE)
    IN /\ run.pc = "returned"
       /\ run.result.status \in {"SAT", "UNSAT", "ERROR"}
       /\ sat /\ ~unsat => run.result.status = "SAT"
       /\ unsat /\ ~sat => run.result.status = "UNSAT"
       /\ ~sat /\ ~unsat => run.result.status = "ERROR"

\* C19: on every return path of call_solver the temporary file it created
\* no longer exists and no pipe descriptor it opened is open in the parent;
\* on the normal path the file is unlinked after the child has exited.
C19_NothingLeftBehind ==
  run.pc = "returned" =>
    /\ run.temp_file # "exists"
    /\ run.fds = {}
    /\ run.child # "none" => run.child_at_unlink = "exited"

-----------------------------------------------------------------------------
(* geometry.hpp: find_all_images, one action for each evaluation of the    *)
(* loop condition.  calls holds the arguments; out.images and              *)
(* out.new_images are the two local sets, out.pc is "call", "loop" or      *)
(* "returned".                                                             *)

\* at most this many transforms in transf_list
MaxTransforms == 2

\* calls.n counts the iterations of the loop up to this many
MaxIterations == 3

ImageBounds == BoundsOf(3, 2, 2)

ShiftRight3 == <<1, 0, 0, 1, 3, 0, 0>>

ShiftLeft1 == <<1, 0, 0, 1, -1, 0, 0>>

\* an expanding transform
Double == <<2, 0, 0, 2, 0, 0, 0>>

\* a transform that is not invertible
Collapse == <<0, 0, 0, 0, 1, 1, 0>>

TransformChoices ==
  {IDENTITY, FlipX3, Rot90, NextGen, ShiftRight3, ShiftLeft1, Double, Collapse}

RECURSIVE TransformLists(_)
TransformLists(n) ==
  IF n = 0 THEN {<<>>}
  ELSE {Append(l, transf) : l \in TransformLists(n - 1),
                            transf \in TransformChoices}

\* start points within and outside the bounds
StartChoices == PointsIn(ImageBounds) \cup {<<-1, 0, 0>>, <<4, 1, 1>>}

ImagesInit ==
  /\ tr = NoTransition /\ legacy = NoLegacy
  /\ pats = <<>> /\ sp = NoProblem /\ dimacs = NoText /\ run = NoRun
  /\ out = [src |-> 0, pc |-> "call", images |-> {}, new_images |-> {}]
  /\ \E p \in StartChoices : \E n \in 0..MaxTransforms :
       \E transf_list \in TransformLists(n) :
         calls = [n |-> 0, p |-> p, transf_list |-> transf_list,
                  bounds |-> ImageBounds]

\* lines 119-121
ImagesCall ==
  /\ out.pc = "call"
  /\ out' = [out EXCEPT
               !.pc = "loop",
               !.images = {calls.p},
               !.new_images =
                 find_new_images({calls.p}, calls.transf_list, calls.bounds)]
  /\ UNCHANGED <<tr, pats, legacy, calls, sp, dimacs, run>>

\* lines 122-125, one iteration
ImagesLoop ==
  /\ out.pc = "loop"
  /\ out.new_images # {}
  /\ LET images == out.images \cup out.new_images
     IN out' = [out EXCEPT
                  !.images = images,
                  !.new_images =
                    find_new_images(images, calls.transf_list, calls.bounds)]
  /\ calls' = [calls EXCEPT !.n = IF @ < MaxIterations THEN @ + 1 ELSE @]
  /\ UNCHANGED <<tr, pats, legacy, sp, dimacs, run>>

\* lines 122 and 126
ImagesReturn ==
  /\ out.pc = "loop"
  /\ out.new_images = {}
  /\ out' = [out EXCEPT !.pc = "returned"]
  /\ UNCHANGED <<tr, pats, legacy, calls, sp, dimacs, run>>

ImagesNext == ImagesCall \/ ImagesLoop \/ ImagesReturn

\* the loop runs in one thread, which takes its next step whenever it has one
SpecImages == ImagesInit /\ [][ImagesNext]_vars /\ WF_vars(ImagesNext)

-----------------------------------------------------------------------------
(* Claims about find_all_images                                            *)

\* compositions may leave the bounds by this much before they come back
Margin == 4

Window ==
  <<<<ImageBounds[1][1] - Margin, ImageBounds[1][2] + Margin>>,
    <<ImageBounds[2][1] - Margin, ImageBounds[2][2] + Margin>>,
    <<ImageBounds[3][1] - Margin, ImageBounds[3][2] + Margin>>>>

RECURSIVE Orbit(_, _)
\* the images of the points under the compositions of the transforms that
\* stay within the window
Orbit(points, transf_list) ==
  LET next == {q \in {transform(transf_list[i], p) :
                        p \in points, i \in 1..Len(transf_list)} :
                 in_limits(q, Window)}
  IN IF next \subseteq points THEN points
     ELSE Orbit(points \cup next, transf_list)

\* C22: find_all_images(p, transforms, bounds) returns exactly the points q
\* with q = p, or q in bounds and q the image of p under some finite
\* composition of the transforms, compositions whose intermediate images
\* lie outside bounds included.
C22_ImagesAreTheOrbitInBounds ==
  out.pc = "returned" =>
    out.images =
      {calls.p} \cup {q \in Orbit({calls.p}, calls.transf_list) :
                        in_limits(q, calls.bounds)}

\* C23: find_all_images terminates for every start point, every list of
\* transforms and every bounds.
C23_ImagesTerminates == <>(out.pc = "returned")

\* a call that has returned after more than one iteration, with an
\* expanding or a non-invertible transform and a time shift in the list
C23_Witness ==
  /\ out.pc = "returned"
  /\ calls.n >= 2
  /\ \E i \in 1..Len(calls.transf_list) :
       calls.transf_list[i] \in {Double, Collapse}
  /\ \E i \in 1..Len(calls.transf_list) : calls.transf_list[i] = NextGen

-----------------------------------------------------------------------------
(* Claims about the deduplication of transitions                           *)

\* the raw variable ids of a built problem
RawVariables(problem) == 2..(problem.total_variables + 1)

\* the cell at p under the assignment that makes the raw ids of `a` alive
RawAlive(problem, a, p) ==
  LET v == raw_value_at(problem, p)
  IN v = 1 \/ (v >= 2 /\ v \in a)

\* the live cells of generation t under the assignment
RawPlane(problem, a, t) ==
  {<<p[1], p[2]>> :
     p \in {q \in PointsIn(problem.bounds) : q[3] = t /\ RawAlive(problem, a, q)}}

\* every rule-following output cell is the B3/S23 successor of its
\* neighbourhood, the cells out of bounds being dead
FollowsRule(problem, a) ==
  LET cells == OutputCells(problem.bounds)
  IN \A i \in 1..Len(cells) :
       problem.cell_follows_rules[OutputOf(cells[i])] =>
         (RawAlive(problem, a, OutputOf(cells[i]))
            <=> SuccessorAlive(RawPlane(problem, a, cells[i][3]),
                               cells[i][1], cells[i][2]))

\* the raw ids that var_remap merges have equal values, and the ids
\* remapped to a constant have the constant's value
MergedAgree(problem, a) ==
  \A v \in RawVariables(problem) :
    LET r == problem.var_remap[v - 1]
    IN /\ r = 1 => v \in a
       /\ r = 0 => v \notin a
       /\ \A w \in RawVariables(problem) :
            problem.var_remap[w - 1] = r => (v \in a <=> w \in a)

\* the true DIMACS variables of the remapped problem under the assignment
Induced(problem, a) ==
  {problem.var_remap[v - 1] - 1 :
     v \in {w \in a \cap RawVariables(problem) : problem.var_remap[w - 1] >= 2}}

\* the raw and the remapped problem decode to the same grid
SameGrid(problem, a) ==
  \A p \in PointsIn(problem.bounds) :
    RawAlive(problem, a, p)
      <=> DecodeAlive(remapped_value_at(problem, p), Induced(problem, a))

\* C21: for a problem that builds without error, an assignment of the raw
\* variables makes every rule-following output cell the B3/S23 successor of
\* its neighbourhood if and only if it gives equal values to the raw ids
\* that var_remap merges, the constant's value to the ids remapped to 0 or
\* 1, and the induced assignment of the remapped variables satisfies
\* get_clauses(); the two decoded grids are then the same.
C21_DeduplicationKeepsSolutions ==
  "pattern_clean" \in DOMAIN calls /\ sp.is_built /\ sp.build_error = <<>> =>
    LET clauses == problem_get_clauses(sp).clauses
    IN \A a \in SUBSET RawVariables(sp) :
         FollowsRule(sp, a)
           <=> /\ MergedAgree(sp, a)
               /\ AllSat(clauses, Induced(sp, a))
               /\ SameGrid(sp, a)

-----------------------------------------------------------------------------
(* Claims about known cells that contradict the rule                       *)

\* some prime implicant cares only about known cells of the transition and
\* none of them agrees with its force bit: the candidate clause is empty
EmptyCandidate(ten_cells) ==
  \E i \in 1..Len(primeImplicants) :
    \A bit \in primeImplicants[i][1] :
      /\ ten_cells[bit] < 2
      /\ (ten_cells[bit] # 0) # (bit \in primeImplicants[i][2])

\* C24: when for a transition some prime implicant has every cared cell
\* known and none agreeing with its force bit, the encoder emits false: the
\* clauses of the transition are unsatisfiable, or an error is raised.
C24_EmptyClauseEmittedAsFalse ==
  tr.emitted /\ EmptyCandidate(tr.ten_cells) =>
    tr.thrown \/ Models(tr.clauses, tr) = {}

-----------------------------------------------------------------------------
(* Claims about the clause list and the remapping of a search problem      *)

\* C25: SearchProblem::get_clauses emits the clauses of transitions with
\* identical remapped (neighbourhood ids, output id) tuples a single time:
\* the returned ClauseList contains no clause twice.
C25_NoClauseTwice ==
  out.src = Len(pats) + 1 /\ Len(pats) > 0 =>
    Cardinality({out.clauses[i] : i \in 1..Len(out.clauses)})
      = Len(out.clauses)

\* the union-find as the scan of deduplicate_transitions leaves it
DedupParent(problem) ==
  DedupLoop(problem, OutputCells(problem.bounds), 1,
            [sig_to_output |-> <<>>, parent |-> <<>>,
             thrown |-> FALSE, error |-> <<>>]).parent

\* the class of v: the keys with the same root
ClassOf(parent, v) ==
  IF v \in DOMAIN parent
  THEN {w \in DOMAIN parent : UFRoot(parent, w) = UFRoot(parent, v)}
  ELSE {v}

\* C27: after deduplicate_transitions, for every raw variable v,
\* var_remap[v - 2] is the constant c in {0, 1} if and only if the class of
\* v contains c; otherwise it is an id >= 2, two variables having the same
\* id iff they are in the same class, and the ids used are exactly the
\* range [2, 2 + num_variables()).
C27_RemapFollowsClasses ==
  BuiltProblem =>
    LET parent == DedupParent(sp)
        raw == RawVariables(sp)
    IN /\ \A v \in raw : \A c \in {0, 1} :
            sp.var_remap[v - 1] = c <=> c \in ClassOf(parent, v)
       /\ \A v \in raw : sp.var_remap[v - 1] >= 0
       /\ \A v, w \in raw :
            sp.var_remap[v - 1] >= 2 /\ sp.var_remap[w - 1] >= 2 =>
              (sp.var_remap[v - 1] = sp.var_remap[w - 1]
                 <=> ClassOf(parent, v) = ClassOf(parent, w))
       /\ {sp.var_remap[v - 1] : v \in raw} \ {0, 1}
            = 2..(problem_num_variables(sp) + 1)

\* C29: when SearchProblem::build has raised an error, for a coverage gap
\* or for contradictory known outputs, the problem is not marked built.
C29_FailedBuildLeavesNotBuilt ==
  "build_error" \in DOMAIN sp /\ sp.build_error # <<>> => ~sp.is_built

-----------------------------------------------------------------------------
(* Claims about cells without a cell group                                 *)

\* the cells of a pattern that have no group and are not known
FreeCells(pat) ==
  {c \in Cells(pat) : c.cell_group = DEFAULT_CELL_GROUP /\ ~c.known}

\* C28: in a built VariablePattern a cell whose cell-group index is the
\* NONE sentinel and that is not known has a variable id >= 2 that no other
\* cell of the pattern has, whatever groups, transforms and known cells the
\* other cells carry.
C28_UngroupedCellsStayAlone ==
  \A i \in 1..Len(pats) :
    ~IsKnownPattern(pats[i]) /\ pats[i].is_built =>
      \A c \in FreeCells(pats[i]) :
        /\ get_cell_value(pats[i], c.position) >= 2
        /\ \A d \in Cells(pats[i]) :
             d.position # c.position =>
               get_cell_value(pats[i], d.position)
                 # get_cell_value(pats[i], c.position)

\* a built pattern with an ungrouped unknown cell that is a spatial image
\* of a grouped cell, next to a known cell
C28_Witness ==
  \E i \in 1..Len(pats) :
    /\ ~IsKnownPattern(pats[i]) /\ pats[i].is_built
    /\ \E c \in FreeCells(pats[i]) : \E d \in Cells(pats[i]) :
         /\ d.cell_group # DEFAULT_CELL_GROUP
         /\ d.position # c.position
         /\ c.position \in
              find_all_images(d.position,
                pats[i].cell_groups[d.cell_group + 1].spatial_transformations,
                pats[i].bounds)
    /\ \E e \in Cells(pats[i]) : e.known

-----------------------------------------------------------------------------
(* Claims about a problem and the sub-patterns it refers to                *)

\* the sub-patterns the entries of the problem refer to
Referenced == {sp.entries[i].pattern : i \in 1..Len(sp.entries)}

\* C30: whenever the SearchProblem is marked built, every sub-pattern it
\* refers to is built too, and where the owning sub-pattern now reports a
\* known cell the problem's get_cell_value is that constant; a mutation of
\* a sub-pattern after the build of the problem makes the problem not
\* built.
C30_BuiltProblemHasBuiltPatterns ==
  "pattern_clean" \in DOMAIN calls /\ sp.is_built =>
    /\ \A i \in Referenced : pats[i].is_built
    /\ \A p \in PointsIn(sp.bounds) :
         LET owner == pats[sp.entries[EntryOf(sp.entries, p)].pattern]
         IN contains(owner, p) /\ get_cell(owner, p).known =>
              problem_get_cell_value(sp, p)
                = (IF get_cell(owner, p).state THEN 1 ELSE 0)

-----------------------------------------------------------------------------
(* Claims about the table of prime implicants                              *)

\* the tuple y agrees with force on some cared bit
Agrees(y, care, force) == \E b \in care : (b \in y) <=> (b \in force)

\* the pairs (care, force), care not empty and force a subset of care, that
\* every valid B3/S23 tuple over `bits` agrees with on some cared bit, and
\* that no pair on a proper subset of care with the same force bits does
MinimalCovers(bits) ==
  LET valid == {y \in SUBSET bits : ValidTuple(y)}
      pairs == UNION {{<<care, force>> : force \in SUBSET care} :
                        care \in (SUBSET bits) \ {{}}}
      covering == {pair \in pairs :
                     \A y \in valid : Agrees(y, pair[1], pair[2])} \cup {}
  IN {pair \in covering :
        \A care \in (SUBSET pair[1]) \ {pair[1]} :
          <<care, pair[2] \cap care>> \notin covering}

=============================================================================
